---------------------------- MODULE Spec2Model ----------------------------
(***************************************************************************)
(* A model of snapborg: the retention selection, the per-snapshot backup   *)
(* tags kept in the snapper userdata, the result tree and the backup       *)
(* orchestration (backup -> backup_config -> backup_to_repo ->             *)
(* backup_snapshot) with the calls it makes to snapper and borg.           *)
(*                                                                         *)
(* Strings that the program formats and parses are sequences of            *)
(* one-character strings.  Points in time are seconds since                *)
(* 2023-01-01T00:00:00 (a Sunday); the calendar below is the proleptic     *)
(* Gregorian calendar of Python's datetime from that day on.               *)
(***************************************************************************)
EXTENDS Integers, Sequences, FiniteSets, TLC

(***************************************************************************)
(* Generic helpers                                                         *)
(***************************************************************************)
Range(s) == {s[i] : i \in 1..Len(s)}

SeqOfSet(S) == CHOOSE q \in [1..Cardinality(S) -> S] : Range(q) = S

Perms(S) == {q \in [1..Cardinality(S) -> S] : Range(q) = S}

(***************************************************************************)
(* results.py                                                              *)
(***************************************************************************)
NoStatus == "None"

Node(status, children) == [status |-> status, children |-> children]

\* CommandResult.ok / warn / err / from_children
ResultOk(children) == Node("OK", children)
ResultWarn(children) == Node("WARN", children)
ResultErr(children) == Node("ERR", children)
FromChildren(children) == Node(NoStatus, children)

\* a derivation that lets one successful child make the parent OK
DerivedStatus_AnyOk(statuses) ==
    IF \E i \in 1..Len(statuses) : statuses[i] = "OK" THEN "OK"
    ELSE IF \E i \in 1..Len(statuses) : statuses[i] = "ERR" THEN "ERR"
    ELSE "WARN"

\* CommandResult.status, lines 29-34: the status derived from the statuses
\* of the children
DerivedStatus(statuses) ==
    IF \A i \in 1..Len(statuses) : statuses[i] = "OK" THEN "OK"
    ELSE IF \E i \in 1..Len(statuses) : statuses[i] = "ERR" THEN "ERR"
    ELSE "WARN"

\* CommandResult.status (the property)
RECURSIVE Status(_)
Status(r) ==
    IF r.status # NoStatus THEN r.status
    ELSE DerivedStatus([i \in 1..Len(r.children) |-> Status(r.children[i])])

(***************************************************************************)
(* snapper.py: the userdata tag string                                     *)
(***************************************************************************)
RECURSIVE LStrip(_, _)
LStrip(s, chars) ==
    IF s # <<>> /\ Head(s) \in chars THEN LStrip(Tail(s), chars) ELSE s

RECURSIVE RStrip(_, _)
RStrip(s, chars) ==
    IF s # <<>> /\ s[Len(s)] \in chars
    THEN RStrip(SubSeq(s, 1, Len(s) - 1), chars) ELSE s

\* str.strip() with no argument: whitespace on both sides
Strip(s) == RStrip(LStrip(s, {" "}), {" "})

\* str.split(sep): always at least one field
RECURSIVE SplitAcc(_, _, _)
SplitAcc(s, sep, cur) ==
    IF s = <<>> THEN <<cur>>
    ELSE IF Head(s) = sep THEN <<cur>> \o SplitAcc(Tail(s), sep, <<>>)
    ELSE SplitAcc(Tail(s), sep, Append(cur, Head(s)))

Split(s, sep) == SplitAcc(s, sep, <<>>)

\* sep.join(parts)
RECURSIVE Join(_, _)
Join(parts, sep) ==
    IF parts = <<>> THEN <<>>
    ELSE IF Len(parts) = 1 THEN parts[1]
    ELSE parts[1] \o <<sep>> \o Join(Tail(parts), sep)

\* config.py: the repository name of pre-migration configurations
LEGACY_REPO_NAME == <<"l">>

\* the value of the userdata key SNAPBORG_BACKUP_KEY_LEGACY, or of
\* SNAPBORG_BACKUP_KEY, when the key is not set
NoValue == <<>>

LegacyTrue == <<"t", "r", "u", "e">>

\* a reading of userdata that honours the legacy key beside the new one
ParseBackedUp_LegacyToo(userdata) ==
    (IF userdata.repos # NoValue
     THEN {Strip(f) : f \in Range(Split(RStrip(LStrip(userdata.repos, {" ", "["}),
                                               {" ", "]"}), ";"))}
     ELSE {})
    \cup (IF userdata.legacy = LegacyTrue THEN {LEGACY_REPO_NAME} ELSE {})

\* SnapperSnapshot.__init__: the set _is_backed_up read from info["userdata"],
\* userdata = [repos |-> value of snapborg_backup_repos,
\*             legacy |-> value of snapborg_backup]
ParseBackedUp(userdata) ==
    IF userdata.repos # NoValue
    THEN {Strip(f) : f \in Range(Split(RStrip(LStrip(userdata.repos, {" ", "["}),
                                              {" ", "]"}), ";"))}
    ELSE IF userdata.legacy = LegacyTrue THEN {LEGACY_REPO_NAME}
    ELSE {}

\* SnapperSnapshot.__init__
SnapperSnapshot(info) ==
    [number |-> info.number, date |-> info.date,
     is_backed_up |-> ParseBackedUp(info.userdata), cleanup |-> info.cleanup]

\* SnapperSnapshot.is_backed_up
IsBackedUp(snapshot, repo) == repo \in snapshot.is_backed_up

\* an update that never records a repository
SetBackupStatusMem_NeverAdds(backed_up, repo, status) == backed_up \ {repo}

\* an update whose clearing forgets every repository
SetBackupStatusMem_ClearsAll(backed_up, repo, status) ==
    IF status THEN backed_up \cup {repo} ELSE {}

\* SnapperSnapshot.set_backup_status, the update of _is_backed_up
\* (done before snapper is called, so also when that call fails)
SetBackupStatusMem(backed_up, repo, status) ==
    IF status THEN backed_up \cup {repo} ELSE backed_up \ {repo}

\* SnapperSnapshot.set_backup_status, the value of SNAPBORG_BACKUP_KEY:
\* '[' + ';'.join(self._is_backed_up) + ']'.  The iteration order of the
\* Python set is not specified; every order parses to the same set, and the
\* model writes one.
UserdataString(backed_up) ==
    <<"[">> \o Join(SeqOfSet(backed_up), ";") \o <<"]">>

\* SnapperSnapshot.set_backup_status, legacy_userdata: the expression
\*    (f",{KEY}=" + 'true' if status else '') if repo == LEGACY_REPO_NAME else ""
\* parses as ((f",{KEY}=" + 'true') if status else ''), so the legacy key is
\* written only when it is set to 'true' and is never cleared.
\* KeepValue stands for: the key is not part of the modify call.
KeepValue == <<"-">>

LegacyUserdata(repo, status) ==
    IF repo = LEGACY_REPO_NAME
    THEN (IF status THEN LegacyTrue ELSE KeepValue)
    ELSE KeepValue

\* snapper modify --userdata: the keys named are set, the others are kept
ModifyUserdata(old, repos, legacy) ==
    [repos |-> repos, legacy |-> IF legacy = KeepValue THEN old.legacy ELSE legacy]

\* SnapperSnapshot.set_backup_status, the userdata after the modify call
SetBackupStatusUserdata(old, backed_up, repo, status) ==
    ModifyUserdata(old,
                   UserdataString(SetBackupStatusMem(backed_up, repo, status)),
                   LegacyUserdata(repo, status))

(***************************************************************************)
(* Calendar: days are counted from 2023-01-01, datetimes in seconds        *)
(***************************************************************************)
DaySeconds == 24 * 60 * 60

IsLeap(y) == (y % 4 = 0 /\ y % 100 # 0) \/ y % 400 = 0

DaysInYear(y) == IF IsLeap(y) THEN 366 ELSE 365

DaysInMonth(y, m) ==
    IF m = 2 THEN (IF IsLeap(y) THEN 29 ELSE 28)
    ELSE IF m \in {4, 6, 9, 11} THEN 30 ELSE 31

\* day number of January 1st of year y
RECURSIVE YearStart(_)
YearStart(y) == IF y <= 2023 THEN 0 ELSE YearStart(y - 1) + DaysInYear(y - 1)

\* day number of the first of month m of year y
RECURSIVE MonthStart(_, _)
MonthStart(y, m) ==
    IF m = 1 THEN YearStart(y) ELSE MonthStart(y, m - 1) + DaysInMonth(y, m - 1)

RECURSIVE YearFrom(_, _)
YearFrom(day, y) == IF day < YearStart(y + 1) THEN y ELSE YearFrom(day, y + 1)

YearOf(day) == YearFrom(day, 2023)

RECURSIVE MonthFrom(_, _, _)
MonthFrom(day, y, m) ==
    IF m = 12 \/ day < MonthStart(y, m + 1) THEN m ELSE MonthFrom(day, y, m + 1)

MonthOf(day) == MonthFrom(day, YearOf(day), 1)

\* date.weekday(): Monday is 0; 2023-01-01 is a Sunday
Weekday(day) == (day + 6) % 7

\* datetime(y, m, d) and datetime(y, m, d, hh, mm, ss)
DateTime(y, m, d) == (MonthStart(y, m) + (d - 1)) * DaySeconds

DateTimeAt(y, m, d, hh, mm, ss) == DateTime(y, m, d) + (hh * 60 + mm) * 60 + ss

\* the first datetime the model represents (datetime.min of the model)
MinDateTime == DateTime(2023, 1, 1)

(***************************************************************************)
(* retention.py and util.split                                             *)
(***************************************************************************)
\* util.split: the items for which pred holds, and the others, in order
SplitYes(data, start, end_) ==
    SelectSeq(data, LAMBDA x : x[1] >= start /\ x[1] < end_)

SplitNo(data, start, end_) ==
    SelectSeq(data, LAMBDA x : ~(x[1] >= start /\ x[1] < end_))

\* sorted(entries, key=lambda entry: entry[0]): a stable sort by date
RECURSIVE InsertByDate(_, _)
InsertByDate(sorted, e) ==
    IF sorted = <<>> THEN <<e>>
    ELSE IF sorted[Len(sorted)][1] <= e[1] THEN Append(sorted, e)
    ELSE Append(InsertByDate(SubSeq(sorted, 1, Len(sorted) - 1), e),
                sorted[Len(sorted)])

RECURSIVE SortedByDate(_)
SortedByDate(entries) ==
    IF entries = <<>> THEN <<>>
    ELSE InsertByDate(SortedByDate(SubSeq(entries, 1, Len(entries) - 1)),
                      entries[Len(entries)])

\* with_date: (date, snapshot) pairs; a snapshot is named by its position in
\* the input list (the objects are distinct, whatever their fields are)
WithDate(dates) == SortedByDate([i \in 1..Len(dates) |-> <<dates[i], i>>])

\* max(entries, key=lambda x: x[0], default=None): the first entry, in list
\* order, whose date is the greatest; <<>> stands for None
MaxByDate_Oldest(entries) ==
    IF entries = <<>> THEN <<>>
    ELSE entries[CHOOSE i \in 1..Len(entries) :
                    \A j \in 1..Len(entries) :
                       /\ entries[i][1] <= entries[j][1]
                       /\ entries[j][1] = entries[i][1] => i <= j]

RECURSIVE MaxByDate(_)
MaxByDate(entries) ==
    IF entries = <<>> THEN <<>>
    ELSE LET rest == MaxByDate(SubSeq(entries, 1, Len(entries) - 1))
             last == entries[Len(entries)]
         IN IF rest = <<>> THEN last
            ELSE IF last[1] > rest[1] THEN last ELSE rest

\* with_date[-keep_last:]; the slice [-0:] is the whole list
LastEntries_First(entries, keep_last) ==
    IF keep_last = 0 \/ keep_last >= Len(entries) THEN entries
    ELSE SubSeq(entries, 1, keep_last)

LastEntries(entries, keep_last) ==
    IF keep_last = 0 \/ keep_last >= Len(entries) THEN entries
    ELSE SubSeq(entries, Len(entries) - keep_last + 1, Len(entries))

Tiers == <<"minutely", "hourly", "daily", "weekly", "monthly", "yearly">>

\* the keep count of a tier
NrKeep(policy, tier) ==
    CASE tier = "minutely" -> policy.keep_minutely
      [] tier = "hourly" -> policy.keep_hourly
      [] tier = "daily" -> policy.keep_daily
      [] tier = "weekly" -> policy.keep_weekly
      [] tier = "monthly" -> policy.keep_monthly
      [] tier = "yearly" -> policy.keep_yearly

\* the third element of a tier's tuple: the start of the most recent interval
FirstDate(tier, now) ==
    LET today == now \div DaySeconds
        start_of_today == today * DaySeconds
    IN CASE tier = "minutely" -> (now \div 60) * 60
         [] tier = "hourly" -> (now \div 3600) * 3600
         [] tier = "daily" -> start_of_today
         [] tier = "weekly" -> start_of_today - Weekday(today) * DaySeconds
         [] tier = "monthly" -> DateTime(YearOf(today), MonthOf(today), 1)
         [] tier = "yearly" -> DateTime(YearOf(today), 1, 1)

\* the second element of a tier's tuple: the start of the preceding interval
PrevDate(tier, x) ==
    LET day == x \div DaySeconds
        year == YearOf(day)
        month == MonthOf(day)
    IN CASE tier = "minutely" -> x - 60
         [] tier = "hourly" -> x - 3600
         [] tier = "daily" -> x - DaySeconds
         [] tier = "weekly" -> x - 7 * DaySeconds
         [] tier = "monthly" -> DateTime(IF month # 1 THEN year ELSE year - 1,
                                         ((month + 10) % 12) + 1, 1)
         [] tier = "yearly" -> DateTime(year - 1, 1, 1)

\* whether prev_date_fn(x) raises: the result would lie before the first
\* datetime (OverflowError of the subtraction, ValueError of datetime())
PrevDateRaises(tier, x) ==
    CASE tier = "minutely" -> x - 60 < MinDateTime
      [] tier = "hourly" -> x - 3600 < MinDateTime
      [] tier = "daily" -> x - DaySeconds < MinDateTime
      [] tier = "weekly" -> x - 7 * DaySeconds < MinDateTime
      [] tier = "monthly" -> x < DateTime(2023, 2, 1)
      [] tier = "yearly" -> x < DateTime(2024, 1, 1)

\* the loop condition stays true for ever: every interval still to come lies
\* before `start`, no remaining snapshot does, so nothing is ever taken from
\* the list or from the count, and the loop runs until prev_date_fn raises
NeverConsidered(nr_keep, snapshots_remaining, start) ==
    /\ nr_keep > 0
    /\ Len(snapshots_remaining) > 0
    /\ \A i \in 1..Len(snapshots_remaining) : snapshots_remaining[i][1] >= start

\* the while loop of one tier, from the interval [start, end_) on; the result
\* is [raised, retained]
RECURSIVE TierLoop(_, _, _, _, _, _)
TierLoop(tier, nr_keep, start, end_, snapshots_remaining, retained) ==
    IF ~(nr_keep > 0 /\ Len(snapshots_remaining) > 0)
    THEN [raised |-> FALSE, retained |-> retained]
    ELSE LET snapshots_to_consider == SplitYes(snapshots_remaining, start, end_)
             remaining == SplitNo(snapshots_remaining, start, end_)
             last_snapshot == MaxByDate(snapshots_to_consider)
             kept == IF last_snapshot # <<>>
                     THEN retained \cup {last_snapshot[2]} ELSE retained
             left == IF last_snapshot # <<>> THEN nr_keep - 1 ELSE nr_keep
         IN IF PrevDateRaises(tier, start) \/ NeverConsidered(left, remaining, start)
            THEN [raised |-> TRUE, retained |-> kept]
            ELSE TierLoop(tier, left, PrevDate(tier, start), start, remaining, kept)

\* the for loop over the tiers, from tier number t on
RECURSIVE TiersFrom(_, _, _, _, _)
TiersFrom(t, policy, now, with_date, retained) ==
    IF t > Len(Tiers) THEN [raised |-> FALSE, retained |-> retained]
    ELSE LET r == TierLoop(Tiers[t], NrKeep(policy, Tiers[t]),
                           FirstDate(Tiers[t], now), now, with_date, retained)
         IN IF r.raised THEN r
            ELSE TiersFrom(t + 1, policy, now, with_date, r.retained)

GetRetainedSnapshots_NoGuard(dates, policy, now) ==
    LET with_date == WithDate(dates)
        last == {e[2] : e \in Range(LastEntries(with_date, policy.keep_last))}
    IN TiersFrom(1, policy, now, with_date, last)

\* get_retained_snapshots(snapshots, date_key, **policy) evaluated at `now`:
\* dates[i] is date_key(snapshots[i]); the result names the retained
\* snapshots by their positions in the input list
GetRetainedSnapshots(dates, policy, now) ==
    LET with_date == WithDate(dates)
        last == IF policy.keep_last > 0
                THEN {e[2] : e \in Range(LastEntries(with_date, policy.keep_last))}
                ELSE {}
    IN TiersFrom(1, policy, now, with_date, last)

(***************************************************************************)
(* Bounds of the model                                                     *)
(***************************************************************************)
\* how many external calls may fail, or how often the run may be killed,
\* in one behaviour
MaxFaults == 2

\* how many backup runs one behaviour holds
MaxRuns == 2

(***************************************************************************)
(* The configurations, snapshots and times the behaviours start from       *)
(***************************************************************************)
RepoA == <<"A">>
RepoB == <<"B">>
RepoC == <<"C">>
SourceHome == <<"h">>
SourceRoot == <<"r">>

NoRetention ==
    [keep_last |-> 0, keep_minutely |-> 0, keep_hourly |-> 0, keep_daily |-> 0,
     keep_weekly |-> 0, keep_monthly |-> 0, keep_yearly |-> 0]

\* borg.py DEFAULT_REPO_CONFIG["retention"]
DefaultRetention ==
    [NoRetention EXCEPT !.keep_last = 1, !.keep_daily = 7, !.keep_weekly = 4,
                        !.keep_monthly = 3, !.keep_yearly = 5]

OnlyLast == [NoRetention EXCEPT !.keep_last = 1]

\* RepoConfig.get_fail_after(): False, True or a timedelta (in seconds)
FailAfterFalse == [kind |-> "false", seconds |-> 0]
FailAfterTrue == [kind |-> "true", seconds |-> 0]
FailAfterDays(d) == [kind |-> "duration", seconds |-> d * DaySeconds]

FailAfters == {FailAfterFalse, FailAfterTrue, FailAfterDays(1), FailAfterDays(3)}

RepoConfig(name, path, fail_after, retention, is_old_config, valid) ==
    [name |-> name, path |-> path, fail_after |-> fail_after,
     retention |-> retention, is_old_config |-> is_old_config, valid |-> valid]

Paths == {"p1", "p2"}

\* one source with two named repositories
TwoRepos(f) ==
    <<[name |-> SourceHome,
       repos |-> <<RepoConfig(RepoA, "p1", f, DefaultRetention, FALSE, TRUE),
                   RepoConfig(RepoB, "p2", FailAfterTrue, OnlyLast, FALSE, TRUE)>>]>>

\* two sources that archive into one physical repository
TwoSources ==
    <<[name |-> SourceHome,
       repos |-> <<RepoConfig(RepoA, "p1", FailAfterFalse, DefaultRetention,
                              FALSE, TRUE)>>],
      [name |-> SourceRoot,
       repos |-> <<RepoConfig(RepoC, "p1", FailAfterTrue, OnlyLast, FALSE, TRUE)>>]>>

\* a pre-migration configuration: one repository, under the legacy name
OldConfig ==
    <<[name |-> SourceHome,
       repos |-> <<RepoConfig(LEGACY_REPO_NAME, "p1", FailAfterTrue,
                              DefaultRetention, TRUE, TRUE)>>]>>

\* a configuration whose second repository is invalid
InvalidConfig ==
    <<[name |-> SourceHome,
       repos |-> <<RepoConfig(RepoA, "p1", FailAfterFalse, DefaultRetention,
                              FALSE, TRUE),
                   RepoConfig(RepoB, "p2", FailAfterTrue, OnlyLast, FALSE, FALSE)>>]>>

\* the states the tags and the archive of a snapshot may start in: never
\* backed up ("none"); backed up by a pre-migration version ("legacy");
\* backed up to the first repository of its source ("tagged"); archived there
\* by a run that ended before it wrote the tag ("stale")
TagKinds == {"none", "legacy", "tagged", "stale"}

HomeKinds ==
    {<<"none", "none">>, <<"legacy", "none">>, <<"legacy", "legacy">>,
     <<"stale", "none">>, <<"stale", "stale">>, <<"tagged", "stale">>,
     <<"tagged", "tagged">>}

\* a scenario: a configuration and, per source, the kinds of its snapshots
\* 1, 2, ... (snapshot 0, the live system, is never backed up)
Scenarios ==
    {[cfg |-> TwoRepos(f), kinds |-> <<k>>] : f \in FailAfters, k \in HomeKinds}
    \cup {[cfg |-> TwoSources, kinds |-> <<k, r>>] :
             k \in {<<"none", "none">>, <<"stale", "none">>},
             r \in {<<"none">>, <<"tagged">>}}
    \cup {[cfg |-> OldConfig, kinds |-> <<k>>] :
             k \in {<<"none", "none">>, <<"tagged", "none">>, <<"stale", "none">>}}
    \cup {[cfg |-> InvalidConfig, kinds |-> <<k>>] : k \in {<<"none", "none">>}}

\* the snapshots of a source: numbers and dates (number 0 is the live system)
SnapshotDate(number) == DateTimeAt(2024, 1, 4 + number, 12, 0, 0)

SnapshotNumbers(source) == IF source = SourceHome THEN <<0, 1, 2>> ELSE <<0, 1>>

\* the times a run may be evaluated at
Nows == {DateTimeAt(2024, 1, 8, 10, 0, 0)}

CleanupAlgorithm == <<"t", "i", "m", "e", "l", "i", "n", "e">>

NoCleanup == <<>>

\* archive name given to borg: f"{name}-{number}-{date.isoformat()}", kept
\* as its three parts
ArchiveName(source, number, date) == <<source, number, date>>

\* str(n) of a natural number, as a sequence of characters
RECURSIVE Decimal(_)
Decimal(n) ==
    LET digit == <<"0", "1", "2", "3", "4", "5", "6", "7", "8", "9">>[(n % 10) + 1]
    IN IF n < 10 THEN <<digit>> ELSE Append(Decimal(n \div 10), digit)

\* a number printed with at least `width` digits
RECURSIVE ZeroPadded(_, _)
ZeroPadded(n, width) ==
    IF Len(Decimal(n)) >= width THEN Decimal(n)
    ELSE <<"0">> \o ZeroPadded(n, width - 1)

\* datetime.isoformat() of a datetime without microseconds
IsoFormat(date) ==
    LET day == date \div DaySeconds
        year == YearOf(day)
        month == MonthOf(day)
        seconds == date % DaySeconds
    IN ZeroPadded(year, 4) \o <<"-">> \o ZeroPadded(month, 2) \o <<"-">>
       \o ZeroPadded(day - MonthStart(year, month) + 1, 2) \o <<"T">>
       \o ZeroPadded(seconds \div 3600, 2) \o <<":">>
       \o ZeroPadded((seconds % 3600) \div 60, 2) \o <<":">>
       \o ZeroPadded(seconds % 60, 2)

\* the characters of the name of an archive
ArchiveString(archive) ==
    archive[1] \o <<"-">> \o Decimal(archive[2]) \o <<"-">> \o IsoFormat(archive[3])

\* the glob without the quotes around it
PruneGlob_Unquoted(snapper_config) == snapper_config \o <<"-", "*">>

\* BorgRepo.prune: the argument of --glob-archives, f"'{snapper_config}-*'".
\* The command is run without a shell, so borg receives the two quotes as
\* characters of the pattern.
PruneGlob(snapper_config) == <<"'">> \o snapper_config \o <<"-", "*", "'">>

\* borg matches the pattern against the whole archive name; * stands for any
\* characters, every other character of the patterns here for itself
RECURSIVE GlobMatch(_, _)
GlobMatch(pattern, name) ==
    IF pattern = <<>> THEN name = <<>>
    ELSE IF Head(pattern) = "*"
    THEN GlobMatch(Tail(pattern), name)
         \/ (name # <<>> /\ GlobMatch(pattern, Tail(name)))
    ELSE /\ name # <<>>
         /\ Head(name) = Head(pattern)
         /\ GlobMatch(Tail(pattern), Tail(name))

\* the archives of a repository that borg prune may remove for a source
Prunable(archives, snapper_config) ==
    {a \in archives : GlobMatch(PruneGlob(snapper_config), ArchiveString(a))}

\* the flags of a run: recreate, dryrun, prune_old_backups, absolute_paths
Flags(r, d, p, a) ==
    [recreate |-> r, dryrun |-> d, prune_old_backups |-> p, absolute_paths |-> a]

RunFlags ==
    {Flags(FALSE, FALSE, TRUE, FALSE), Flags(TRUE, FALSE, TRUE, FALSE),
     Flags(FALSE, TRUE, TRUE, FALSE), Flags(TRUE, TRUE, FALSE, FALSE),
     Flags(FALSE, FALSE, FALSE, TRUE)}

\* the flags of the runs of a behaviour that holds several
RerunFlags == {Flags(FALSE, FALSE, TRUE, FALSE), Flags(TRUE, FALSE, FALSE, FALSE)}

\* borg.py: exit code of borg for "archive already exists"
BORG_RETURNCODE_ARCHIVE_EXISTS == 30

(***************************************************************************)
(* State                                                                   *)
(***************************************************************************)
VARIABLES
    cfg,              \* the loaded configuration: the sources and their repos
    prov,             \* snapper: per source, the listed snapshots
    arch,             \* borg: per repository path, the archives it holds
    mounts,           \* the mounts stacked at the bind mount point, last on top
    flags,            \* the flags of the current run
    now,              \* datetime.now() of the current run
    pc,               \* where the run is
    si, ri, ci,       \* the source, repository and candidate being handled
    snapshots,        \* SnapperConfig._snapshots of the current source
    candidates,       \* backup_to_repo: candidates (positions in snapshots)
    leaves,           \* the list the comprehension over candidates is building
    snapshot_results, \* backup_to_repo: snapshot_results
    raising,          \* the exception unwinding through prevent_cleanup
    repo_results,     \* backup_config: repo_results built so far
    config_results,   \* backup: the results of the sources handled so far
    results,          \* backup: results (the root), once it is built
    exitcode,         \* the exit status of the process, once it has exited
    raised,           \* the exception that ended the process, if one did
    calls,            \* history: the external calls of the current run
    selected,         \* history: the candidates selected per repository
    faults,           \* history: failures injected so far
    runs,             \* history: runs started so far
    prev,             \* history: summary of the run before the current one
    migrations        \* history: legacy migrations per snapshot

env == <<cfg, prov, arch, mounts>>
ctl == <<flags, now, pc, si, ri, ci, snapshots, candidates, leaves,
         snapshot_results, raising, repo_results, config_results, results,
         exitcode, raised>>
hist == <<calls, selected, faults, runs, prev, migrations>>
vars == <<env, ctl, hist>>

(***************************************************************************)
(* The control state as one record, and the steps that follow a result     *)
(***************************************************************************)
Ctl ==
    [pc |-> pc, si |-> si, ri |-> ri, ci |-> ci, snapshots |-> snapshots,
     candidates |-> candidates, leaves |-> leaves,
     snapshot_results |-> snapshot_results, raising |-> raising,
     repo_results |-> repo_results, config_results |-> config_results,
     results |-> results, exitcode |-> exitcode, raised |-> raised]

SetCtl(c) ==
    \E d \in {c} :
       /\ pc' = d.pc /\ si' = d.si /\ ri' = d.ri /\ ci' = d.ci
       /\ snapshots' = d.snapshots /\ candidates' = d.candidates
       /\ leaves' = d.leaves /\ snapshot_results' = d.snapshot_results
       /\ raising' = d.raising /\ repo_results' = d.repo_results
       /\ config_results' = d.config_results /\ results' = d.results
       /\ exitcode' = d.exitcode /\ raised' = d.raised

NoException == "none"

Running == pc \notin {"idle", "exited"}

Source == cfg[si]
Repo == cfg[si].repos[ri]
Candidate == snapshots[candidates[ci]]

\* commands/__init__.py main: the exit status for an exception that reaches it
ExitCodeOf(exception) ==
    IF exception \in {"SnapborgBaseException", "SnapperExecutionException",
                      "SnapperTooOldException", "BorgExecutionException",
                      "ConfigError"}
    THEN 1 ELSE 2

\* an exception leaves run_snapborg
Exit(c, exception) ==
    [c EXCEPT !.pc = "exited", !.raised = exception,
              !.exitcode = ExitCodeOf(exception)]

\* backup, after the results are printed: raise on ERR, else prune or return
BackupEnd(c, prune_old_backups) ==
    LET root == FromChildren(c.config_results)
        d == [c EXCEPT !.results = <<root>>]
    IN IF Status(root) = "ERR" THEN Exit(d, "SnapborgBaseException")
       ELSE IF prune_old_backups THEN [d EXCEPT !.pc = "prune", !.si = 1, !.ri = 1]
       ELSE [d EXCEPT !.pc = "exited", !.exitcode = 0]

\* backup_config returns: its result joins the list backup is building
ConfigEnd(c, prune_old_backups) ==
    LET d == [c EXCEPT !.config_results = Append(@, FromChildren(c.repo_results)),
                       !.repo_results = <<>>]
    IN IF c.si < Len(cfg)
       THEN [d EXCEPT !.si = c.si + 1, !.pc = "get_config"]
       ELSE BackupEnd(d, prune_old_backups)

\* backup_to_repo returns `result`: it joins repo_results
RepoEnd(c, result, prune_old_backups) ==
    LET d == [c EXCEPT !.repo_results = Append(@, result), !.raising = NoException]
    IN IF c.ri < Len(cfg[c.si].repos)
       THEN [d EXCEPT !.ri = c.ri + 1, !.pc = "create_repo"]
       ELSE ConfigEnd(d, prune_old_backups)

\* backup_snapshot: the first call for a candidate
FirstTransferStep(recreate) == IF recreate THEN "delete" ELSE "create"

\* backup_snapshot returns `leaf`; after the last candidate the list is
\* assigned to snapshot_results and prevent_cleanup starts to restore
LeafEnd(c, leaf, recreate) ==
    LET d == [c EXCEPT !.leaves = Append(@, leaf)]
    IN IF c.ci < Len(c.candidates)
       THEN [d EXCEPT !.ci = c.ci + 1, !.pc = FirstTransferStep(recreate)]
       ELSE [d EXCEPT !.snapshot_results = d.leaves, !.ci = 1, !.pc = "restore"]

\* an exception leaves backup_snapshot: the finally clause of prevent_cleanup
\* runs while it propagates
Unwind(c, exception) ==
    [c EXCEPT !.raising = exception, !.ci = 1, !.pc = "restore"]

\* backup_to_repo, lines 238-277: the result of a repository from the
\* results of its candidates
MaxDate(dates) == CHOOSE d \in dates : \A e \in dates : e <= d

\* a policy under which fail_after=false fails like fail_after=true
RepoPolicy_Strict(repo_config, snaps, results_, t) ==
    IF \E i \in 1..Len(results_) : Status(results_[i]) = "ERR"
    THEN CASE repo_config.fail_after.kind = "false" -> ResultErr(results_)
           [] repo_config.fail_after.kind = "true" -> ResultErr(results_)
           [] OTHER ->
                LET backed_up == {i \in 1..Len(snaps) :
                                     IsBackedUp(snaps[i], repo_config.name)}
                IN IF Len(snaps) > 0 /\ backed_up = {}
                   THEN ResultErr(results_)
                   ELSE IF MaxDate({snaps[i].date : i \in backed_up})
                              + repo_config.fail_after.seconds < t
                        THEN ResultErr(results_)
                        ELSE ResultWarn(results_)
    ELSE FromChildren(results_)

\* a policy whose deadline never passes once a snapshot is backed up
RepoPolicy_NoDeadline(repo_config, snaps, results_, t) ==
    IF \E i \in 1..Len(results_) : Status(results_[i]) = "ERR"
    THEN CASE repo_config.fail_after.kind = "false" -> ResultWarn(results_)
           [] repo_config.fail_after.kind = "true" -> ResultErr(results_)
           [] OTHER ->
                LET backed_up == {i \in 1..Len(snaps) :
                                     IsBackedUp(snaps[i], repo_config.name)}
                IN IF Len(snaps) > 0 /\ backed_up = {}
                   THEN ResultErr(results_)
                   ELSE ResultWarn(results_)
    ELSE FromChildren(results_)

RepoPolicy(repo_config, snaps, results_, t) ==
    IF \E i \in 1..Len(results_) : Status(results_[i]) = "ERR"
    THEN CASE repo_config.fail_after.kind = "false" -> ResultWarn(results_)
           [] repo_config.fail_after.kind = "true" -> ResultErr(results_)
           [] OTHER ->
                LET backed_up == {i \in 1..Len(snaps) :
                                     IsBackedUp(snaps[i], repo_config.name)}
                IN IF Len(snaps) > 0 /\ backed_up = {}
                   THEN ResultErr(results_)
                   ELSE IF MaxDate({snaps[i].date : i \in backed_up})
                              + repo_config.fail_after.seconds < t
                        THEN ResultErr(results_)
                        ELSE ResultWarn(results_)
    ELSE FromChildren(results_)

\* prevent_cleanup has restored every candidate: the with statement ends, with
\* the exception that was propagating, if any
RestoreEnd(c, snaps, t, prune_old_backups) ==
    IF c.raising = NoException
    THEN RepoEnd(c, RepoPolicy(cfg[c.si].repos[c.ri], snaps, c.snapshot_results, t),
                 prune_old_backups)
    ELSE IF c.raising = "SnapperExecutionException"
    THEN RepoEnd(c, ResultErr(c.snapshot_results), prune_old_backups)
    ELSE Exit(c, c.raising)

\* launch_borg: the exit codes of borg for which it raises
LaunchBorgRaises(returncode) == returncode \notin {0, 1}

\* backup_snapshot, lines 305-309: the condition of the legacy migration
IsLegacyMigration(returncode, repo_config, snapshot) ==
    /\ returncode = BORG_RETURNCODE_ARCHIVE_EXISTS
    /\ ~repo_config.is_old_config
    /\ IsBackedUp(snapshot, LEGACY_REPO_NAME)

(***************************************************************************)
(* History                                                                 *)
(***************************************************************************)
Call(op, n, res) == [op |-> op, si |-> si, ri |-> ri, n |-> n, res |-> res]

Log(op, n, res) == calls' = Append(calls, Call(op, n, res))

CanFail == faults < MaxFaults

\* the outcomes of a call to snapper: "ok", or "error" within the fault budget
SnapperOutcomes == {"ok"} \cup (IF CanFail THEN {"error"} ELSE {})

\* a run_snapper that runs the command whatever dryrun is
RunSnapperOutcomes_IgnoresDryrun(dryrun) == SnapperOutcomes

\* run_snapper(args, config, dryrun): with dryrun the command is printed and
\* not run
RunSnapperOutcomes(dryrun) == IF dryrun THEN {"dryrun"} ELSE SnapperOutcomes

\* the BorgRepo of a dry run, built by create_from_config(config, repo_config,
\* dryrun), hands no command to borg
LaunchBorgSkipped == flags.dryrun

Fault(outcome) == faults' = IF outcome = "ok" THEN faults ELSE faults + 1

\* snapper modify --userdata: what snapper holds after the call for
\* snapshot `number` of source s
WithUserdata(s, number, userdata) ==
    [prov EXCEPT ![s] = [i \in 1..Len(@) |->
                            IF @[i].number = number
                            THEN [@[i] EXCEPT !.userdata = userdata] ELSE @[i]]]

\* snapper modify --cleanup-algorithm
WithCleanup(s, number, cleanup) ==
    [prov EXCEPT ![s] = [i \in 1..Len(@) |->
                            IF @[i].number = number
                            THEN [@[i] EXCEPT !.cleanup = cleanup] ELSE @[i]]]

InfoOf(s, number) ==
    LET i == CHOOSE j \in 1..Len(prov[s]) : prov[s][j].number = number
    IN prov[s][i]

SetMem(c, status_repo, status) ==
    [c EXCEPT !.snapshots[c.candidates[c.ci]].is_backed_up =
                  SetBackupStatusMem(@, status_repo, status)]

(***************************************************************************)
(* Initial states                                                          *)
(***************************************************************************)
InitUserdata(kind, first_repo) ==
    CASE kind = "none" -> [repos |-> NoValue, legacy |-> NoValue]
      [] kind = "stale" -> [repos |-> NoValue, legacy |-> NoValue]
      [] kind = "legacy" -> [repos |-> NoValue, legacy |-> LegacyTrue]
      [] kind = "tagged" ->
            [repos |-> UserdataString({first_repo}),
             legacy |-> IF first_repo = LEGACY_REPO_NAME THEN LegacyTrue ELSE NoValue]

InitInfo(source, number, kind) ==
    [number |-> number, date |-> SnapshotDate(number),
     cleanup |-> IF number = 0 THEN NoCleanup ELSE CleanupAlgorithm,
     userdata |-> InitUserdata(IF number = 0 THEN "none" ELSE kind,
                               source.repos[1].name)]

NoPrev ==
    [ran |-> FALSE, flags |-> Flags(FALSE, FALSE, FALSE, FALSE), now |-> 0,
     root |-> NoStatus, creates |-> 0]

KindOf(scenario, s, number) ==
    IF number = 0 THEN "none" ELSE scenario.kinds[s][number]

InitProv(scenario) ==
    [s \in 1..Len(scenario.cfg) |->
        [i \in 1..Len(SnapshotNumbers(scenario.cfg[s].name)) |->
            LET n == SnapshotNumbers(scenario.cfg[s].name)[i]
            IN InitInfo(scenario.cfg[s], n, KindOf(scenario, s, n))]]

InitArch(scenario) ==
    [p \in Paths |->
        UNION {{ArchiveName(scenario.cfg[s].name, n, SnapshotDate(n)) :
                   n \in {m \in Range(SnapshotNumbers(scenario.cfg[s].name)) :
                             KindOf(scenario, s, m) # "none"}} :
               s \in {t \in 1..Len(scenario.cfg) : scenario.cfg[t].repos[1].path = p}}]

\* no run has started
NotStarted ==
    /\ flags = Flags(FALSE, FALSE, FALSE, FALSE)
    /\ now = 0
    /\ pc = "idle" /\ si = 1 /\ ri = 1 /\ ci = 1
    /\ snapshots = <<>> /\ candidates = <<>> /\ leaves = <<>>
    /\ snapshot_results = <<>> /\ raising = NoException
    /\ repo_results = <<>> /\ results = <<>>
    /\ exitcode = 0 - 1 /\ raised = NoException
    /\ calls = <<>> /\ selected = <<>> /\ faults = 0 /\ runs = 0
    /\ prev = NoPrev
    /\ migrations = <<>>
    /\ mounts = <<>>

Init ==
    /\ \E scenario \in Scenarios :
          /\ cfg = scenario.cfg
          /\ prov = InitProv(scenario)
          /\ arch = InitArch(scenario)
    /\ config_results = <<>>
    /\ NotStarted

(***************************************************************************)
(* Actions: one per external call of a backup run                          *)
(***************************************************************************)
\* run_snapborg in mode "backup": a new process starts, with flags from F
StartRunAs(F, count) ==
    /\ \E f \in F, t \in Nows :
          /\ t >= now
          /\ flags' = f
          /\ now' = t
    /\ prev' = IF pc = "idle" THEN NoPrev
               ELSE [ran |-> TRUE, flags |-> flags, now |-> now,
                     root |-> IF results = <<>> THEN NoStatus ELSE Status(results[1]),
                     creates |-> Cardinality({i \in 1..Len(calls) :
                                                 calls[i].op = "create"})]
    /\ SetCtl([Ctl EXCEPT !.pc = "get_config", !.si = 1, !.ri = 1, !.ci = 1,
                          !.snapshots = <<>>, !.candidates = <<>>,
                          !.leaves = <<>>, !.snapshot_results = <<>>,
                          !.raising = NoException, !.repo_results = <<>>,
                          !.config_results = <<>>, !.results = <<>>,
                          !.exitcode = 0 - 1, !.raised = NoException])
    /\ calls' = <<>> /\ selected' = <<>>
    /\ runs' = count
    /\ UNCHANGED <<env, faults, migrations>>

\* a run is started and counted
StartRunWith(F) == StartRunAs(F, runs + 1)

\* one backup run
StartRun ==
    /\ pc = "idle"
    /\ StartRunWith(RunFlags)

\* a backup run, and the runs after it
Rerun ==
    /\ pc \in {"idle", "exited"}
    /\ runs < MaxRuns
    /\ StartRunWith(RerunFlags)

\* backup_config: SnapperConfig.get(name), the first call of which checks the
\* version of snapper
GetConfig ==
    /\ pc = "get_config"
    /\ \E o \in SnapperOutcomes \cup (IF CanFail /\ si = 1 THEN {"too_old"} ELSE {}) :
          /\ Log("get-config", 0, o)
          /\ Fault(o)
          /\ SetCtl(IF o = "ok"
                    THEN [Ctl EXCEPT !.pc = "create_repo", !.ri = 1,
                                     !.snapshots = <<>>, !.repo_results = <<>>]
                    ELSE IF o = "too_old" THEN Exit(Ctl, "SnapperTooOldException")
                    ELSE Exit(Ctl, "SnapperExecutionException"))
    /\ UNCHANGED <<env, flags, now, selected, runs, prev, migrations>>

\* backup_config: BorgRepo.create_from_config for the next repository; it
\* raises Exception for a repository it cannot build
CreateRepo ==
    /\ pc = "create_repo"
    /\ SetCtl(IF Repo.valid THEN [Ctl EXCEPT !.pc = "list"]
              ELSE Exit(Ctl, "Exception"))
    /\ UNCHANGED <<env, flags, now, hist>>

\* the list the snapper "list" call returns, as SnapperSnapshot objects
ListedSnapshots(s) ==
    LET listed == SelectSeq(prov[s], LAMBDA info : info.number # 0)
    IN [i \in 1..Len(listed) |-> SnapperSnapshot(listed[i])]

\* candidates chosen without looking at the tags
CandidateLists_IgnoresTags(snaps, repo_config, recreate, retained) == Perms(retained)

\* backup_to_repo, lines 215-220: the candidates, in one of the orders the
\* list(retained) of get_retained_snapshots may have
CandidateLists(snaps, repo_config, recreate, retained) ==
    {SelectSeq(order, LAMBDA i : ~IsBackedUp(snaps[i], repo_config.name) \/ recreate) :
        order \in Perms(retained)}

\* backup_to_repo, up to the selection of the candidates
ListSnapshots ==
    /\ pc = "list"
    /\ \E o \in (IF snapshots = <<>> THEN SnapperOutcomes ELSE {"cached"}) :
          /\ calls' = IF o = "cached" THEN calls ELSE Append(calls, Call("list", 0, o))
          /\ faults' = IF o = "error" THEN faults + 1 ELSE faults
          /\ IF o = "error"
             THEN /\ SetCtl(RepoEnd(Ctl, ResultErr(<<>>), flags.prune_old_backups))
                  /\ selected' = selected
             ELSE \E snaps \in {IF o = "cached" THEN snapshots ELSE ListedSnapshots(si)} :
                  \E c \in {[Ctl EXCEPT !.snapshots = snaps]} :
                  \E ret \in {GetRetainedSnapshots([i \in 1..Len(snaps) |-> snaps[i].date],
                                                    Repo.retention, now)} :
                     IF Len(snaps) = 0
                     THEN /\ SetCtl(RepoEnd(c, ResultWarn(<<>>), flags.prune_old_backups))
                          /\ selected' = selected
                     ELSE IF ret.raised
                     THEN /\ SetCtl(Exit(c, "OverflowError"))
                          /\ selected' = selected
                     ELSE \E cands \in CandidateLists(snaps, Repo, flags.recreate,
                                                      ret.retained) :
                            /\ selected' = Append(selected,
                                                  [si |-> si, ri |-> ri,
                                                   numbers |-> [i \in 1..Len(cands) |->
                                                                  snaps[cands[i]].number]])
                            /\ SetCtl(IF cands = <<>>
                                      THEN RepoEnd(c, ResultOk(<<>>),
                                                   flags.prune_old_backups)
                                      ELSE [c EXCEPT !.pc = "protect", !.ci = 1,
                                                     !.candidates = cands,
                                                     !.leaves = <<>>,
                                                     !.snapshot_results = <<>>])
    /\ UNCHANGED <<env, flags, now, runs, prev, migrations>>

\* the archive borg is asked to create or delete for the current candidate
CandidateArchive == ArchiveName(Source.name, Candidate.number, Candidate.date)

\* the userdata of the current candidate after set_backup_status(repo, status)
TagWritten(name, status) ==
    WithUserdata(si, Candidate.number,
                 SetBackupStatusUserdata(InfoOf(si, Candidate.number).userdata,
                                         Candidate.is_backed_up, name, status))

\* a prevent_cleanup that hands over to the transfers after its first snapshot
ProtectNext_Interleaved(c, recreate) ==
    [c EXCEPT !.pc = FirstTransferStep(recreate)]

\* SnapperConfig.prevent_cleanup, the loop before the yield: the next snapshot
\* is protected; after the last one the body of the with statement starts
ProtectNext(c, recreate) ==
    IF c.ci < Len(c.candidates)
    THEN [c EXCEPT !.ci = c.ci + 1]
    ELSE [c EXCEPT !.ci = 1, !.pc = FirstTransferStep(recreate)]

\* SnapperConfig.prevent_cleanup, the loop before the yield:
\* SnapperSnapshot.prevent_cleanup for the next candidate
Protect ==
    /\ pc = "protect"
    /\ \E o \in RunSnapperOutcomes(flags.dryrun) :
          /\ calls' = IF o = "dryrun" THEN calls
                      ELSE Append(calls, Call("protect", Candidate.number, o))
          /\ faults' = IF o = "error" THEN faults + 1 ELSE faults
          /\ prov' = IF o = "ok"
                     THEN WithCleanup(si, Candidate.number, NoCleanup)
                     ELSE prov
          /\ SetCtl(IF o = "error"
                    THEN RepoEnd(Ctl, ResultErr(snapshot_results),
                                 flags.prune_old_backups)
                    ELSE ProtectNext(Ctl, flags.recreate))
    /\ UNCHANGED <<cfg, mounts, arch, flags, now, selected, runs, prev, migrations>>

\* backup_snapshot, the handler of BorgExecutionException
BorgRaised(c, returncode) ==
    IF IsLegacyMigration(returncode, Repo, Candidate)
    THEN [c EXCEPT !.pc = "migrate_new"]
    ELSE LeafEnd(c, ResultErr(<<>>), flags.recreate)

\* the exit codes borg may end a delete call with
DeleteCodes ==
    IF CandidateArchive \in arch[Repo.path]
    THEN {0} \cup (IF CanFail THEN {1, 2} ELSE {})
    ELSE {2}

\* backup_snapshot with recreate: borg_repo.delete(backup_name)
Delete ==
    /\ pc = "delete"
    /\ IF LaunchBorgSkipped
       THEN /\ SetCtl([Ctl EXCEPT !.pc = "untag"])
            /\ UNCHANGED <<arch, calls, faults>>
       ELSE \E rc \in DeleteCodes :
              /\ Log("delete", Candidate.number,
                     IF LaunchBorgRaises(rc) THEN "error" ELSE "ok")
              /\ faults' = IF rc = 0 \/ CandidateArchive \notin arch[Repo.path]
                           THEN faults ELSE faults + 1
              /\ arch' = IF LaunchBorgRaises(rc) THEN arch
                         ELSE [arch EXCEPT ![Repo.path] = @ \ {CandidateArchive}]
              /\ SetCtl(IF LaunchBorgRaises(rc) THEN BorgRaised(Ctl, rc)
                        ELSE [Ctl EXCEPT !.pc = "untag"])
    /\ UNCHANGED <<cfg, mounts, prov, flags, now, selected, runs, prev, migrations>>

\* backup_snapshot with recreate: snapshot.set_backup_status(name, False, dryrun)
Untag ==
    /\ pc = "untag"
    /\ \E o \in RunSnapperOutcomes(flags.dryrun) :
          /\ calls' = IF o = "dryrun" THEN calls
                      ELSE Append(calls, Call("untag", Candidate.number, o))
          /\ faults' = IF o = "error" THEN faults + 1 ELSE faults
          /\ prov' = IF o = "ok" THEN TagWritten(Repo.name, FALSE) ELSE prov
          /\ SetCtl(IF o = "error"
                    THEN LeafEnd(SetMem(Ctl, Repo.name, FALSE), ResultErr(<<>>),
                                 flags.recreate)
                    ELSE [SetMem(Ctl, Repo.name, FALSE) EXCEPT !.pc = "create"])
    /\ UNCHANGED <<cfg, mounts, arch, flags, now, selected, runs, prev, migrations>>

\* the exit codes borg may end a create call with
CreateCodes ==
    (IF CandidateArchive \in arch[Repo.path]
     THEN {BORG_RETURNCODE_ARCHIVE_EXISTS}
     ELSE {0} \cup (IF CanFail THEN {1} ELSE {}))
    \cup (IF CanFail THEN {2} ELSE {})

\* backup_snapshot: borg_repo.backup(...), inside a bind mount when the run
\* archives absolute paths
Create ==
    /\ pc = "create"
    /\ \E m \in {"ok"} \cup (IF flags.absolute_paths /\ CanFail THEN {"error"} ELSE {}) :
          IF m = "error"
          THEN /\ Log("mount", Candidate.number, "error")
               /\ faults' = faults + 1
               /\ arch' = arch
               /\ SetCtl(Unwind(Ctl, "Exception"))
          ELSE IF LaunchBorgSkipped
          THEN /\ SetCtl([Ctl EXCEPT !.pc = "tag"])
               /\ UNCHANGED <<arch, calls, faults>>
          ELSE \E rc \in CreateCodes :
                 /\ Log("create", Candidate.number,
                        IF LaunchBorgRaises(rc) THEN "error" ELSE "ok")
                 /\ faults' = IF rc \in {1, 2} THEN faults + 1 ELSE faults
                 /\ arch' = IF LaunchBorgRaises(rc) THEN arch
                            ELSE [arch EXCEPT ![Repo.path] = @ \cup {CandidateArchive}]
                 /\ SetCtl(IF LaunchBorgRaises(rc) THEN BorgRaised(Ctl, rc)
                           ELSE [Ctl EXCEPT !.pc = "tag"])
    /\ UNCHANGED <<cfg, mounts, prov, flags, now, selected, runs, prev, migrations>>

\* backup_snapshot: snapshot.set_backup_status(name, True, dryrun)
Tag ==
    /\ pc = "tag"
    /\ \E o \in RunSnapperOutcomes(flags.dryrun) :
          /\ calls' = IF o = "dryrun" THEN calls
                      ELSE Append(calls, Call("tag", Candidate.number, o))
          /\ faults' = IF o = "error" THEN faults + 1 ELSE faults
          /\ prov' = IF o = "ok" THEN TagWritten(Repo.name, TRUE) ELSE prov
          /\ SetCtl(LeafEnd(SetMem(Ctl, Repo.name, TRUE),
                            IF o = "error" THEN ResultErr(<<>>) ELSE ResultOk(<<>>),
                            flags.recreate))
    /\ UNCHANGED <<cfg, mounts, arch, flags, now, selected, runs, prev, migrations>>

\* backup_snapshot, legacy migration: snapshot.set_backup_status(name, True)
MigrateNew ==
    /\ pc = "migrate_new"
    /\ \E o \in SnapperOutcomes :
          /\ Log("migrate_new", Candidate.number, o)
          /\ Fault(o)
          /\ prov' = IF o = "ok" THEN TagWritten(Repo.name, TRUE) ELSE prov
          /\ SetCtl(IF o = "error"
                    THEN Unwind(SetMem(Ctl, Repo.name, TRUE),
                                "SnapperExecutionException")
                    ELSE [SetMem(Ctl, Repo.name, TRUE) EXCEPT !.pc = "migrate_legacy"])
    /\ UNCHANGED <<cfg, mounts, arch, flags, now, selected, runs, prev, migrations>>

\* backup_snapshot, legacy migration:
\* snapshot.set_backup_status(LEGACY_REPO_NAME, False)
MigrateLegacy ==
    /\ pc = "migrate_legacy"
    /\ \E o \in SnapperOutcomes :
          /\ Log("migrate_legacy", Candidate.number, o)
          /\ Fault(o)
          /\ prov' = IF o = "ok" THEN TagWritten(LEGACY_REPO_NAME, FALSE) ELSE prov
          /\ migrations' = IF o = "ok"
                           THEN Append(migrations, <<si, Candidate.number>>)
                           ELSE migrations
          /\ SetCtl(IF o = "error"
                    THEN Unwind(SetMem(Ctl, LEGACY_REPO_NAME, FALSE),
                                "SnapperExecutionException")
                    ELSE LeafEnd(SetMem(Ctl, LEGACY_REPO_NAME, FALSE),
                                 ResultWarn(<<>>), flags.recreate))
    /\ UNCHANGED <<cfg, mounts, arch, flags, now, selected, runs, prev>>

\* SnapperConfig.prevent_cleanup, the loop of the finally clause:
\* SnapperSnapshot.restore_cleanup_state for the next candidate
Restore ==
    /\ pc = "restore"
    /\ \E o \in RunSnapperOutcomes(flags.dryrun) :
          /\ calls' = IF o = "dryrun" THEN calls
                      ELSE Append(calls, Call("restore", Candidate.number, o))
          /\ faults' = IF o = "error" THEN faults + 1 ELSE faults
          /\ prov' = IF o = "ok"
                     THEN WithCleanup(si, Candidate.number, Candidate.cleanup)
                     ELSE prov
          /\ SetCtl(IF o = "error"
                    THEN RepoEnd(Ctl, ResultErr(snapshot_results),
                                 flags.prune_old_backups)
                    ELSE IF ci < Len(candidates) THEN [Ctl EXCEPT !.ci = ci + 1]
                    ELSE RestoreEnd(Ctl, snapshots, now, flags.prune_old_backups))
    /\ UNCHANGED <<cfg, mounts, arch, flags, now, selected, runs, prev, migrations>>

\* prune: BorgRepo.create_from_config(...).prune() for the next repository.
\* borg removes some of the archives its glob matches: which ones is borg's
\* own retention, any subset here.
Prune ==
    /\ pc = "prune"
    /\ \E rc \in (IF LaunchBorgSkipped THEN {0} ELSE {0} \cup (IF CanFail THEN {1, 2} ELSE {})) :
          /\ calls' = IF LaunchBorgSkipped THEN calls
                      ELSE Append(calls, Call("prune", 0,
                                              IF LaunchBorgRaises(rc) THEN "error" ELSE "ok"))
          /\ faults' = IF rc = 0 THEN faults ELSE faults + 1
          /\ SetCtl(IF LaunchBorgRaises(rc) THEN Exit(Ctl, "BorgExecutionException")
                    ELSE IF ri < Len(Source.repos) THEN [Ctl EXCEPT !.ri = ri + 1]
                    ELSE IF si < Len(cfg) THEN [Ctl EXCEPT !.si = si + 1, !.ri = 1]
                    ELSE [Ctl EXCEPT !.pc = "exited", !.exitcode = 0])
    /\ \E removed \in (IF LaunchBorgSkipped THEN {{}}
                       ELSE SUBSET Prunable(arch[Repo.path], Source.name)) :
          arch' = [arch EXCEPT ![Repo.path] = @ \ removed]
    /\ UNCHANGED <<cfg, mounts, prov, flags, now, selected, runs, prev, migrations>>

\* the process is killed between two calls: nothing more runs
Kill ==
    /\ Running
    /\ CanFail
    /\ faults' = faults + 1
    /\ SetCtl([Ctl EXCEPT !.pc = "exited", !.exitcode = 137, !.raised = "killed"])
    /\ UNCHANGED <<env, flags, now, calls, selected, runs, prev, migrations>>

Next ==
    \/ StartRun
    \/ GetConfig
    \/ CreateRepo
    \/ ListSnapshots
    \/ Protect
    \/ Delete
    \/ Untag
    \/ Create
    \/ Tag
    \/ MigrateNew
    \/ MigrateLegacy
    \/ Restore
    \/ Prune
    \/ Kill

Spec == Init /\ [][Next]_vars

\* several runs, one after the other, each from what the one before left in
\* snapper and borg
\* one source with two named repositories that keep the last snapshot only
TwoReposLast ==
    <<[name |-> SourceHome,
       repos |-> <<RepoConfig(RepoA, "p1", FailAfterFalse, OnlyLast, FALSE, TRUE),
                   RepoConfig(RepoB, "p2", FailAfterTrue, OnlyLast, FALSE, TRUE)>>]>>

RunScenarios ==
    {[cfg |-> TwoReposLast, kinds |-> <<k>>] : k \in HomeKinds}
    \cup {sc \in Scenarios : sc.cfg = OldConfig}

InitRuns ==
    /\ \E scenario \in RunScenarios :
          /\ cfg = scenario.cfg
          /\ prov = InitProv(scenario)
          /\ arch = InitArch(scenario)
    /\ config_results = <<>>
    /\ NotStarted

NextRuns ==
    \/ Rerun
    \/ GetConfig
    \/ CreateRepo
    \/ ListSnapshots
    \/ Protect
    \/ Delete
    \/ Untag
    \/ Create
    \/ Tag
    \/ MigrateNew
    \/ MigrateLegacy
    \/ Restore
    \/ Prune
    \/ Kill

SpecRuns == InitRuns /\ [][NextRuns]_vars

(***************************************************************************)
(* The tags of one snapshot object, set and cleared for any repository     *)
(***************************************************************************)
TagNames == {RepoA, RepoB, RepoC, LEGACY_REPO_NAME}

InitTags ==
    /\ cfg = TwoRepos(FailAfterFalse)
    /\ \E kind \in TagKinds :
          prov = << <<[number |-> 1, date |-> SnapshotDate(1),
                       cleanup |-> CleanupAlgorithm,
                       userdata |-> InitUserdata(kind, RepoA)]>> >>
    /\ arch = [p \in Paths |-> {}]
    /\ config_results = <<>>
    /\ NotStarted

\* SnapperConfig.get_snapshots: the snapshot objects are built from what
\* snapper lists
GetSnapshots ==
    /\ pc = "idle"
    /\ snapshots' = ListedSnapshots(1)
    /\ calls' = <<>>
    /\ UNCHANGED <<env, flags, now, pc, si, ri, ci, candidates, leaves,
                   snapshot_results, raising, repo_results, config_results,
                   results, exitcode, raised, selected, faults, runs, prev,
                   migrations>>

\* SnapperSnapshot.set_backup_status(repo, status, dryrun); `calls` keeps the
\* last call and the tags the object held before it
SetBackupStatus ==
    /\ pc = "idle"
    /\ \E k \in 1..Len(snapshots) : \E repo \in TagNames : \E status \in BOOLEAN :
       \E o \in SnapperOutcomes \cup {"dryrun"} :
          /\ snapshots' = [snapshots EXCEPT ![k].is_backed_up =
                              SetBackupStatusMem(@, repo, status)]
          /\ prov' = IF o = "ok"
                     THEN WithUserdata(1, snapshots[k].number,
                                       SetBackupStatusUserdata(
                                           InfoOf(1, snapshots[k].number).userdata,
                                           snapshots[k].is_backed_up, repo, status))
                     ELSE prov
          /\ calls' = <<[op |-> "set_backup_status", si |-> 1, ri |-> 0,
                         n |-> k, res |-> o, repo |-> repo, status |-> status,
                         before |-> snapshots[k].is_backed_up]>>
    /\ UNCHANGED <<cfg, mounts, arch, flags, now, pc, si, ri, ci, candidates, leaves,
                   snapshot_results, raising, repo_results, config_results,
                   results, exitcode, raised, selected, faults, runs, prev,
                   migrations>>

NextTags ==
    \/ GetSnapshots
    \/ SetBackupStatus

SpecTags == InitTags /\ [][NextTags]_vars

(***************************************************************************)
(* Result trees of any shape: run, sources, repositories, candidates       *)
(***************************************************************************)
MaxChildren == 2

SeqsUpTo(S, n) == UNION {[1..k -> S] : k \in 0..n}

ResultStatuses == {"OK", "WARN", "ERR"}

\* backup_snapshot returns ok(), warn() or err()
LeafInputs == {Node(st, <<>>) : st \in ResultStatuses}

\* backup_to_repo returns a result with a status of its own or one made
\* from_children
RepoInputs ==
    {Node(st, ls) : st \in ResultStatuses \cup {NoStatus},
                    ls \in SeqsUpTo(LeafInputs, MaxChildren)}

\* backup_config returns from_children(repo_results)
ConfigInputs == {FromChildren(rs) : rs \in SeqsUpTo(RepoInputs, 2)}

ConfigInputsSmall ==
    {FromChildren(rs) : rs \in SeqsUpTo(LeafInputs \cup {FromChildren(<<>>)}, 1)}

InitResults ==
    /\ cfg = TwoRepos(FailAfterFalse)
    /\ prov = << <<>> >>
    /\ arch = [p \in Paths |-> {}]
    /\ \/ \E c \in ConfigInputs : config_results = <<c>>
       \/ \E c \in ConfigInputs : \E d \in ConfigInputsSmall :
             config_results = <<c, d>>
    /\ NotStarted

\* backup, line 146: status = CommandResult.from_children(results)
BackupResult ==
    /\ pc = "idle"
    /\ results = <<>>
    /\ results' = <<FromChildren(config_results)>>
    /\ UNCHANGED <<env, flags, now, pc, si, ri, ci, snapshots, candidates,
                   leaves, snapshot_results, raising, repo_results,
                   config_results, exitcode, raised, hist>>

NextResults == BackupResult

SpecResults == InitResults /\ [][NextResults]_vars

(***************************************************************************)
(* The retention selection on its own: get_retained_snapshots applied to   *)
(* lists of snapshot dates, policies and times                             *)
(***************************************************************************)
\* how many snapshots a list holds
MaxSnapshots == 3

\* the keep counts of the policies
Keeps == 0..2

\* keep_last and the keep count k of one tier, every other count 0
TierPolicy(keep_last, tier, k) ==
    [keep_last |-> keep_last,
     keep_minutely |-> IF tier = "minutely" THEN k ELSE 0,
     keep_hourly |-> IF tier = "hourly" THEN k ELSE 0,
     keep_daily |-> IF tier = "daily" THEN k ELSE 0,
     keep_weekly |-> IF tier = "weekly" THEN k ELSE 0,
     keep_monthly |-> IF tier = "monthly" THEN k ELSE 0,
     keep_yearly |-> IF tier = "yearly" THEN k ELSE 0]

RetentionPolicies ==
    {TierPolicy(l, Tiers[t], k) : l \in Keeps, t \in 1..Len(Tiers), k \in Keeps}
    \cup {DefaultRetention}

\* a Thursday
RetentionNow == DateTimeAt(2025, 1, 2, 10, 30, 20)

\* dates in the minute, hour, day, week, month and year of RetentionNow, in
\* the ones before, and one that is not in the past
RetentionDates ==
    {RetentionNow,
     DateTimeAt(2025, 1, 2, 10, 30, 10),
     DateTimeAt(2025, 1, 2, 10, 29, 59),
     DateTimeAt(2025, 1, 2, 9, 59, 59),
     DateTimeAt(2025, 1, 1, 12, 0, 0),
     DateTimeAt(2024, 12, 31, 23, 59, 59),
     DateTimeAt(2024, 12, 29, 12, 0, 0),
     DateTimeAt(2024, 11, 30, 12, 0, 0)}

\* the short tiers are applied to recent snapshots only, which bounds the
\* number of intervals their loops walk through
ShortTiersRecent(dates, policy, now_) ==
    /\ policy.keep_minutely > 0 =>
          \A i \in 1..Len(dates) : dates[i] >= now_ - 3600
    /\ policy.keep_hourly > 0 =>
          \A i \in 1..Len(dates) : dates[i] >= now_ - 2 * DaySeconds
    /\ policy.keep_daily > 0 =>
          \A i \in 1..Len(dates) : dates[i] >= now_ - 40 * DaySeconds

\* one snapshot per day from 2024-01-01 to 2024-01-07, seen on Monday
\* 2024-01-08 at 00:00
WeekNow == DateTime(2024, 1, 8)
WeekDates == [i \in 1..7 |-> DateTimeAt(2024, 1, i, 12, 0, 0)]

RetentionInputs ==
    {in \in [dates : SeqsUpTo(RetentionDates, MaxSnapshots),
             policy : RetentionPolicies, now : {RetentionNow}] :
        ShortTiersRecent(in.dates, in.policy, in.now)}
    \cup {[dates |-> WeekDates, policy |-> TierPolicy(l, t, k), now |-> WeekNow] :
             l \in {0}, t \in {"daily", "weekly", "monthly"}, k \in {1, 3}}

\* what snapper lists for the dates of an input
DatedInfos(dates) ==
    [i \in 1..Len(dates) |->
        [number |-> i, date |-> dates[i], cleanup |-> CleanupAlgorithm,
         userdata |-> [repos |-> NoValue, legacy |-> NoValue]]]

InitRetention ==
    /\ \E in \in RetentionInputs :
          /\ cfg = <<[name |-> SourceHome,
                      repos |-> <<RepoConfig(RepoA, "p1", FailAfterFalse, in.policy,
                                             FALSE, TRUE)>>]>>
          /\ prov = <<DatedInfos(in.dates)>>
          /\ snapshots = [i \in 1..Len(in.dates) |-> SnapperSnapshot(DatedInfos(in.dates)[i])]
          /\ now = in.now
    /\ arch = [p \in Paths |-> {}]
    /\ flags = Flags(FALSE, FALSE, FALSE, FALSE)
    /\ pc = "list" /\ si = 1 /\ ri = 1 /\ ci = 1
    /\ candidates = <<>> /\ leaves = <<>>
    /\ snapshot_results = <<>> /\ raising = NoException
    /\ repo_results = <<>> /\ config_results = <<>> /\ results = <<>>
    /\ exitcode = 0 - 1 /\ raised = NoException
    /\ calls = <<>> /\ selected = <<>> /\ faults = 0 /\ runs = 1
    /\ prev = NoPrev
    /\ migrations = <<>>
    /\ mounts = <<>>

\* the dates of the snapshot objects: date_key of backup_to_repo
SnapshotDates == [i \in 1..Len(snapshots) |-> snapshots[i].date]

\* backup_to_repo, lines 215-217: the call of get_retained_snapshots; what
\* it returns, or that it raised, is kept in `selected`
Retain ==
    /\ pc = "list"
    /\ LET ret == GetRetainedSnapshots(SnapshotDates, Repo.retention, now)
       IN selected' = <<[si |-> si, ri |-> ri, raised |-> ret.raised,
                         retained |-> ret.retained]>>
    /\ pc' = "protect"
    /\ UNCHANGED <<env, flags, now, si, ri, ci, snapshots, candidates, leaves,
                   snapshot_results, raising, repo_results, config_results,
                   results, exitcode, raised, calls, faults, runs, prev,
                   migrations>>

NextRetention == Retain

SpecRetention == InitRetention /\ [][NextRetention]_vars

(***************************************************************************)
(* prune on its own: two sources, of any two names, that archive into one  *)
(* repository, after a backup run that ended without an error              *)
(***************************************************************************)
\* how many characters the name of a source has
MaxNameLen == 3

NameChars == {"h", "-", "'"}

SourceNames == SeqsUpTo(NameChars, MaxNameLen) \ {<<>>}

\* the sources named a and b, one repository each, both at path "p1"
SharedRepository(a, b) ==
    <<[name |-> a,
       repos |-> <<RepoConfig(RepoA, "p1", FailAfterFalse, OnlyLast, FALSE, TRUE)>>],
      [name |-> b,
       repos |-> <<RepoConfig(RepoC, "p1", FailAfterFalse, OnlyLast, FALSE, TRUE)>>]>>

\* the archives made for the snapshots of source s
ArchivesOf(s) ==
    {ArchiveName(cfg[s].name, prov[s][i].number, prov[s][i].date) :
        i \in 1..Len(prov[s])}

InitPrune ==
    /\ \E a \in SourceNames, b \in SourceNames :
          /\ a # b
          /\ cfg = SharedRepository(a, b)
    /\ prov = [s \in 1..2 |->
                  <<[number |-> 1, date |-> SnapshotDate(1),
                     cleanup |-> CleanupAlgorithm,
                     userdata |-> InitUserdata("tagged", cfg[s].repos[1].name)]>>]
    /\ arch = [p \in Paths |-> IF p = "p1" THEN ArchivesOf(1) \cup ArchivesOf(2) ELSE {}]
    /\ flags = Flags(FALSE, FALSE, TRUE, FALSE)
    /\ now \in Nows
    /\ pc = "prune" /\ si = 1 /\ ri = 1 /\ ci = 1
    /\ snapshots = <<>> /\ candidates = <<>> /\ leaves = <<>>
    /\ snapshot_results = <<>> /\ raising = NoException
    /\ repo_results = <<>>
    /\ config_results = [s \in 1..2 |-> FromChildren(<<ResultOk(<<>>)>>)]
    /\ results = <<FromChildren(config_results)>>
    /\ exitcode = 0 - 1 /\ raised = NoException
    /\ calls = <<>> /\ selected = <<>> /\ faults = 0 /\ runs = 1
    /\ prev = NoPrev
    /\ migrations = <<>>
    /\ mounts = <<>>

NextPrune == Prune

SpecPrune == InitPrune /\ [][NextPrune]_vars

(***************************************************************************)
(* launch_borg on its own: one borg command that ends with any exit status *)
(***************************************************************************)
\* the exit statuses of a process
ReturnCodes == 0..255

\* launch_borg for a command that ends with `returncode`: whether it raises,
\* whether it reports warnings, and the code the exception carries
LaunchBorg(returncode) ==
    [raised |-> LaunchBorgRaises(returncode),
     warned |-> returncode = 1,
     returncode |-> returncode]

InitBorg ==
    /\ cfg = TwoRepos(FailAfterFalse)
    /\ prov = << <<>> >>
    /\ arch = [p \in Paths |-> {}]
    /\ config_results = <<>>
    /\ NotStarted

\* BorgRepo.delete, backup or prune: the command is handed to launch_borg
RunBorg ==
    /\ pc = "idle"
    /\ calls = <<>>
    /\ \E op \in {"delete", "create", "prune"} : \E returncode \in ReturnCodes :
          calls' = <<[op |-> op, si |-> si, ri |-> ri, n |-> 0,
                      res |-> LaunchBorg(returncode), returncode |-> returncode]>>
    /\ UNCHANGED <<env, flags, now, pc, si, ri, ci, snapshots, candidates, leaves,
                   snapshot_results, raising, repo_results, config_results,
                   results, exitcode, raised, selected, faults, runs, prev,
                   migrations>>

NextBorg == RunBorg

SpecBorg == InitBorg /\ [][NextBorg]_vars

(***************************************************************************)
(* BorgRepo.backup with a mount path: the bind mount around launch_borg     *)
(***************************************************************************)
\* how many mounts earlier invocations may have left at the mount point
MaxStale == 3

\* what an earlier invocation may have left mounted there: its bind mount, or
\* the bind mount of another snapshot
StaleMounts == {"stale", "other"}

\* the exit statuses borg ends the create command with
MountedReturnCodes == {0, 1, 2, BORG_RETURNCODE_ARCHIVE_EXISTS}

\* a command run through subprocess: it succeeds or check_call raises
CommandOutcomes == {"ok", "error"}

\* a command of bind_mount or launch_borg and the mounts it found
MountCall(op, res) == [op |-> op, res |-> res, found |-> mounts]

InitMount ==
    /\ cfg = TwoRepos(FailAfterFalse)
    /\ prov = << <<>> >>
    /\ arch = [p \in Paths |-> {}]
    /\ mounts \in SeqsUpTo(StaleMounts, MaxStale)
    /\ flags \in {Flags(FALSE, d, FALSE, TRUE) : d \in BOOLEAN}
    /\ now = 0
    /\ pc = "makedirs" /\ si = 1 /\ ri = 1 /\ ci = 1
    /\ snapshots = <<>> /\ candidates = <<>> /\ leaves = <<>>
    /\ snapshot_results = <<>> /\ raising = NoException
    /\ repo_results = <<>> /\ config_results = <<>> /\ results = <<>>
    /\ exitcode = 0 - 1 /\ raised = NoException
    /\ calls = <<>> /\ selected = <<>> /\ faults = 0 /\ runs = 1
    /\ prev = NoPrev
    /\ migrations = <<>>

\* what bind_mount and launch_borg leave alone
MountFrame ==
    UNCHANGED <<cfg, prov, arch, flags, now, si, ri, ci, snapshots, candidates,
                leaves, snapshot_results, repo_results, config_results, results,
                exitcode, selected, faults, runs, prev, migrations>>

\* bind_mount: os.makedirs(mount_path, exist_ok=True)
MakeDirs ==
    /\ pc = "makedirs"
    /\ \E o \in CommandOutcomes :
          /\ pc' = IF o = "ok" THEN "ismount" ELSE "returned"
          /\ raised' = IF o = "ok" THEN raised ELSE "Exception"
    /\ UNCHANGED <<mounts, raising, calls>>
    /\ MountFrame

\* bind_mount: while os.path.ismount(mount_path): umount
UnmountStale ==
    /\ pc = "ismount"
    /\ IF mounts = <<>>
       THEN /\ pc' = "mount"
            /\ UNCHANGED <<mounts, raised, calls>>
       ELSE \E o \in CommandOutcomes :
              /\ calls' = Append(calls, MountCall("umount", o))
              /\ mounts' = IF o = "ok" THEN SubSeq(mounts, 1, Len(mounts) - 1)
                           ELSE mounts
              /\ pc' = IF o = "ok" THEN "ismount" ELSE "returned"
              /\ raised' = IF o = "ok" THEN raised ELSE "CalledProcessError"
    /\ UNCHANGED raising
    /\ MountFrame

\* bind_mount: mount --bind target_path mount_path
BindMount ==
    /\ pc = "mount"
    /\ \E o \in CommandOutcomes :
          /\ calls' = Append(calls, MountCall("mount", o))
          /\ mounts' = IF o = "ok" THEN Append(mounts, "bind") ELSE mounts
          /\ pc' = IF o = "ok" THEN "launch_borg" ELSE "returned"
          /\ raised' = IF o = "ok" THEN raised ELSE "CalledProcessError"
    /\ UNCHANGED raising
    /\ MountFrame

\* a bind_mount without the finally clause: an exception of the body leaves
\* the function at once
AfterLaunchBorg_NoFinally(raises) == IF raises THEN "returned" ELSE "umount"

\* bind_mount: try: yield finally: umount, whether the body raised or not
AfterLaunchBorg(raises) == "umount"

\* BorgRepo.backup: launch_borg(args, ..., dryrun=dryrun, cwd=mount_path) as
\* the body of the with statement
LaunchBorgMounted ==
    /\ pc = "launch_borg"
    /\ \E rc \in (IF flags.dryrun THEN {0} ELSE MountedReturnCodes) :
          /\ calls' = IF flags.dryrun THEN calls
                      ELSE Append(calls,
                                  MountCall("create", IF LaunchBorgRaises(rc)
                                                      THEN "error" ELSE "ok"))
          /\ raising' = IF LaunchBorgRaises(rc) THEN "CalledProcessError"
                        ELSE NoException
          /\ pc' = AfterLaunchBorg(LaunchBorgRaises(rc))
          /\ raised' = IF pc' = "returned" THEN raising' ELSE raised
    /\ UNCHANGED mounts
    /\ MountFrame

\* bind_mount, the finally clause: umount mount_path; the exception of the
\* body goes on unless umount raises its own
UnmountBind ==
    /\ pc = "umount"
    /\ \E o \in CommandOutcomes :
          /\ calls' = Append(calls, MountCall("umount", o))
          /\ mounts' = IF o = "ok" THEN SubSeq(mounts, 1, Len(mounts) - 1)
                       ELSE mounts
          /\ raised' = IF o = "ok" THEN raising ELSE "CalledProcessError"
    /\ pc' = "returned"
    /\ UNCHANGED raising
    /\ MountFrame

NextMount ==
    \/ MakeDirs
    \/ UnmountStale
    \/ BindMount
    \/ LaunchBorgMounted
    \/ UnmountBind

SpecMount == InitMount /\ [][NextMount]_vars

(***************************************************************************)
(* Vocabulary of the properties                                            *)
(***************************************************************************)
\* the results of the repositories of source s, as far as they exist
RepoResultsOf(s) ==
    IF s <= Len(config_results) THEN config_results[s].children
    ELSE IF s = si THEN repo_results
    ELSE <<>>

HasErrLeaf(node) ==
    \E i \in 1..Len(node.children) : Status(node.children[i]) = "ERR"

\* a call of one of the kinds `ops` failed while repository r of source s
\* was handled
CallFailed(s, r, ops) ==
    \E i \in 1..Len(calls) :
        /\ calls[i].si = s /\ calls[i].ri = r
        /\ calls[i].op \in ops /\ calls[i].res = "error"

CleanupOps == {"protect", "restore"}
ProviderOps == {"list", "protect", "restore", "migrate_new", "migrate_legacy"}
TransferOps == {"delete", "create", "mount"}

Killed == raised = "killed"

InScope ==
    pc \in {"protect", "delete", "untag", "create", "tag", "migrate_new",
            "migrate_legacy", "restore"}

\* the tags snapper holds for a snapshot, as a later run reads them
PersistedTags(s, number) == ParseBackedUp(InfoOf(s, number).userdata)

LastCall == calls[Len(calls)]

\* the legacy migration of a snapshot has just been completed
JustMigrated ==
    /\ calls # <<>>
    /\ LastCall.op = "migrate_legacy" /\ LastCall.res = "ok"

\* C2: when the create call for a new-style repository fails with "archive
\* already exists" for a snapshot tagged with the legacy identity, the
\* migration leaves the snapshot tagged with the name of that repository and
\* not with the legacy identity, in memory and in the tags read back from
\* snapper; and no snapshot is migrated twice, whatever runs follow.
C2_LegacyMigration ==
    /\ JustMigrated =>
          LET name == cfg[LastCall.si].repos[LastCall.ri].name
              k == CHOOSE j \in 1..Len(snapshots) : snapshots[j].number = LastCall.n
          IN /\ ~cfg[LastCall.si].repos[LastCall.ri].is_old_config
             /\ IsBackedUp(snapshots[k], name)
             /\ ~IsBackedUp(snapshots[k], LEGACY_REPO_NAME)
             /\ name \in PersistedTags(LastCall.si, LastCall.n)
             /\ LEGACY_REPO_NAME \notin PersistedTags(LastCall.si, LastCall.n)
    /\ \A i, j \in 1..Len(migrations) : migrations[i] = migrations[j] => i = j

\* a snapshot that was tagged with the legacy identity alone has been
\* migrated, in a run that follows another
C2_Witness ==
    /\ JustMigrated
    /\ PersistedTags(LastCall.si, LastCall.n) = {RepoA}
    /\ InfoOf(LastCall.si, LastCall.n).userdata.legacy = LegacyTrue
    /\ runs = 2

(***************************************************************************)
(* C3                                                                      *)
(***************************************************************************)
\* a repository whose result is ERR although it is optional and no call to
\* snapper failed while it was handled
EscalatedBy(s, r) ==
    /\ Status(RepoResultsOf(s)[r]) = "ERR"
    /\ \/ cfg[s].repos[r].fail_after.kind # "false"
       \/ CallFailed(s, r, ProviderOps)

\* C3: when candidates of a repository failed (ERR leaves) and nothing but
\* candidates failed, backup_to_repo returns WARN for fail_after=false and
\* ERR for fail_after=true; and the failed candidates of a fail_after=false
\* repository alone never make the status of the source or of the run ERR.
C3_FailAfterBoolean ==
    /\ \A s \in 1..Len(cfg) : \A r \in 1..Len(RepoResultsOf(s)) :
          (HasErrLeaf(RepoResultsOf(s)[r]) /\ ~CallFailed(s, r, CleanupOps)) =>
             /\ cfg[s].repos[r].fail_after.kind = "false"
                   => Status(RepoResultsOf(s)[r]) = "WARN"
             /\ cfg[s].repos[r].fail_after.kind = "true"
                   => Status(RepoResultsOf(s)[r]) = "ERR"
    /\ \A s \in 1..Len(config_results) :
          Status(config_results[s]) = "ERR"
             => \E r \in 1..Len(RepoResultsOf(s)) : EscalatedBy(s, r)
    /\ (results # <<>> /\ Status(results[1]) = "ERR")
          => \E s \in 1..Len(config_results) :
                \E r \in 1..Len(RepoResultsOf(s)) : EscalatedBy(s, r)

\* an optional repository with one failed and one successful candidate, in a
\* run that has ended without an error status
C3_Witness ==
    /\ pc = "exited" /\ results # <<>> /\ Status(results[1]) = "WARN"
    /\ \E r \in 1..Len(RepoResultsOf(1)) :
          LET node == RepoResultsOf(1)[r]
          IN /\ cfg[1].repos[r].fail_after.kind = "false"
             /\ Len(node.children) = 2
             /\ \E i, j \in 1..2 : /\ Status(node.children[i]) = "ERR"
                                   /\ Status(node.children[j]) = "OK"
             /\ Status(node) = "WARN"

(***************************************************************************)
(* C4                                                                      *)
(***************************************************************************)
\* the step in which prevent_cleanup ends normally and backup_to_repo
\* evaluates fail_after
PolicyStep ==
    /\ pc = "restore" /\ ci = Len(candidates) /\ raising = NoException
    /\ faults' = faults
    /\ pc' # "restore"

\* the result backup_to_repo has just returned for repository ri
Returned(repo_results_, config_results_) ==
    IF repo_results_ = <<>>
    THEN config_results_[Len(config_results_)].children[ri]
    ELSE repo_results_[ri]

TaggedNow == {i \in 1..Len(snapshots) : IsBackedUp(snapshots[i], Repo.name)}

\* C4: for a fail_after that is a duration, when a candidate failed: the
\* result is ERR when no snapshot is tagged as backed up to the repository,
\* ERR when the newest snapshot so tagged is dated more than the duration
\* before now, and WARN otherwise; the tags are those in memory, the ones
\* the transfers of this run set included.
C4_FailAfterDuration ==
    [][(/\ PolicyStep
        /\ Repo.fail_after.kind = "duration"
        /\ \E i \in 1..Len(snapshot_results) : Status(snapshot_results[i]) = "ERR")
       => Status(Returned(repo_results', config_results')) =
             (IF TaggedNow = {} THEN "ERR"
              ELSE IF \E i \in TaggedNow :
                         /\ \A j \in TaggedNow : snapshots[j].date <= snapshots[i].date
                         /\ snapshots[i].date + Repo.fail_after.seconds < now
                   THEN "ERR"
              ELSE "WARN")]_vars

\* a repository with a deadline is tolerated because of a snapshot this run
\* has tagged, while another candidate failed
C4_Witness ==
    /\ Len(RepoResultsOf(1)) >= 1
    /\ cfg[1].repos[1].fail_after.kind = "duration"
    /\ HasErrLeaf(RepoResultsOf(1)[1])
    /\ Status(RepoResultsOf(1)[1]) = "WARN"
    /\ ~CallFailed(1, 1, CleanupOps)
    /\ \E i \in 1..Len(calls) :
          calls[i].op = "tag" /\ calls[i].ri = 1 /\ calls[i].res = "ok"

(***************************************************************************)
(* C5                                                                      *)
(***************************************************************************)
\* C5: when backup_to_repo has returned or raised, every snapshot whose
\* cleanup algorithm its protection step cleared has the original cleanup
\* algorithm again.
C5_CleanupRestored ==
    (~InScope /\ ~Killed) =>
       \A i \in 1..Len(calls) :
          (calls[i].op = "protect" /\ calls[i].res = "ok")
             => InfoOf(calls[i].si, calls[i].n).cleanup = CleanupAlgorithm

(***************************************************************************)
(* C6                                                                      *)
(***************************************************************************)
ValidConfig == \A s \in 1..Len(cfg) : \A r \in 1..Len(cfg[s].repos) : cfg[s].repos[r].valid

\* C6: when a run ends in which the transfer of a candidate raised an error,
\* every candidate of that repository has a result, the one that failed a
\* result other than OK, and every repository of that source has a result.
C6_PartialFailureIsolation ==
    (pc = "exited" /\ ~Killed /\ ValidConfig) =>
       \A k \in 1..Len(selected) :
          LET s == selected[k].si
              r == selected[k].ri
          IN CallFailed(s, r, TransferOps) =>
                /\ Len(RepoResultsOf(s)) = Len(cfg[s].repos)
                /\ Len(RepoResultsOf(s)[r].children) = Len(selected[k].numbers)
                /\ \A i \in 1..Len(calls) :
                      (/\ calls[i].si = s /\ calls[i].ri = r
                       /\ calls[i].op \in TransferOps /\ calls[i].res = "error")
                      => \E c \in 1..Len(selected[k].numbers) :
                            /\ selected[k].numbers[c] = calls[i].n
                            /\ Status(RepoResultsOf(s)[r].children[c]) # "OK"

(***************************************************************************)
(* C7                                                                      *)
(***************************************************************************)
\* C7: a backup run that has built its result tree exits with a non-zero
\* status if and only if the status of the root is ERR.
C7_ExitStatus ==
    (pc = "exited" /\ ~Killed /\ results # <<>>)
       => (exitcode # 0 <=> Status(results[1]) = "ERR")

(***************************************************************************)
(* C8                                                                      *)
(***************************************************************************)
LastSet == calls[1]

JustSet == calls # <<>> /\ calls[1].op = "set_backup_status"

\* C8: after set_backup_status(A, true) is_backed_up(A) is true, after
\* set_backup_status(A, false) it is false, and for every other repository B
\* is_backed_up(B) is what it was before the call.
C8_TagRoundTrip ==
    JustSet =>
       /\ IsBackedUp(snapshots[LastSet.n], LastSet.repo) <=> LastSet.status
       /\ \A B \in TagNames \ {LastSet.repo} :
             IsBackedUp(snapshots[LastSet.n], B) <=> B \in LastSet.before

\* the tag of one repository has been cleared on a snapshot that holds the
\* tag of another one
C8_Witness ==
    /\ JustSet
    /\ LastSet.repo = RepoA /\ ~LastSet.status
    /\ LastSet.before = {RepoA, RepoB}
    /\ snapshots[LastSet.n].is_backed_up = {RepoB}

(***************************************************************************)
(* C9                                                                      *)
(***************************************************************************)
\* the status of a node made from_children is that of the rule
DerivedAsStated(node) ==
    node.status = NoStatus =>
       LET AllOk == \A i \in 1..Len(node.children) : Status(node.children[i]) = "OK"
           AnyErr == \E i \in 1..Len(node.children) : Status(node.children[i]) = "ERR"
       IN /\ Status(node) = "OK" <=> AllOk
          /\ Status(node) = "ERR" <=> AnyErr
          /\ Status(node) = "WARN" <=> (~AllOk /\ ~AnyErr)

\* the results of the repositories, of every source
RepoLevel(root) ==
    UNION {Range(root.children[s].children) : s \in 1..Len(root.children)}

\* C9: a result without a status of its own is OK exactly when every child
\* is OK, ERR exactly when a child is ERR, and WARN otherwise; so the run is
\* ERR exactly when the result of some repository is ERR, and OK exactly when
\* the result of every repository is OK.
C9_ResultTree ==
    results # <<>> =>
       /\ DerivedAsStated(results[1])
       /\ \A s \in 1..Len(results[1].children) :
             /\ DerivedAsStated(results[1].children[s])
             /\ \A r \in 1..Len(results[1].children[s].children) :
                   DerivedAsStated(results[1].children[s].children[r])
       /\ Status(results[1]) = "ERR"
             <=> \E n \in RepoLevel(results[1]) : Status(n) = "ERR"
       /\ Status(results[1]) = "OK"
             <=> \A n \in RepoLevel(results[1]) : Status(n) = "OK"

\* a run whose repositories ended OK, WARN (derived from a warning leaf) and
\* ERR
C9_Witness ==
    /\ results # <<>>
    /\ Status(results[1]) = "ERR"
    /\ Len(results[1].children) = 2
    /\ \E n \in RepoLevel(results[1]) :
          n.status = NoStatus /\ Len(n.children) = 2 /\ Status(n) = "WARN"
    /\ \E n \in RepoLevel(results[1]) : Status(n) = "OK"
    /\ \E s \in 1..2 : Status(results[1].children[s]) = "OK"

(***************************************************************************)
(* C10                                                                     *)
(***************************************************************************)
\* C10: at every point of a run, a snapshot that snapper holds as tagged
\* backed up to a repository has its archive in that repository.
C10_PersistedTagsAccurate ==
    \A s \in 1..Len(cfg) : \A r \in 1..Len(cfg[s].repos) : \A i \in 1..Len(prov[s]) :
       cfg[s].repos[r].name \in ParseBackedUp(prov[s][i].userdata)
          => ArchiveName(cfg[s].name, prov[s][i].number, prov[s][i].date)
                \in arch[cfg[s].repos[r].path]

(***************************************************************************)
(* The retention selection                                                 *)
(***************************************************************************)
\* get_retained_snapshots has been applied to the snapshots of the state
Retained == pc = "protect" /\ Len(selected) = 1

\* C11: when every keep count of the policy is 0 the call returns the empty
\* selection whatever the snapshots are, and for an empty list of snapshots
\* it returns the empty selection whatever the policy is
C11_EmptySelection ==
    Retained /\ (Repo.retention = NoRetention \/ snapshots = <<>>) =>
        /\ ~selected[1].raised
        /\ selected[1].retained = {}

C11_Witness ==
    /\ Retained
    /\ Repo.retention = NoRetention
    /\ Len(snapshots) = MaxSnapshots
    /\ selected[1].retained = {}

\* the snapshots at the positions L are latest ones: no other snapshot of the
\* list is dated after one of them
Latest(L) ==
    \A i \in L : \A j \in (1..Len(snapshots)) \ L :
       snapshots[j].date <= snapshots[i].date

\* C12: with keep_last = k, 0 < k <= n, for n snapshots, the selection the
\* call returns contains k latest snapshots whatever the other keep counts
\* are, and it is exactly k latest snapshots when every other count is 0
C12_KeepLast ==
    LET k == Repo.retention.keep_last
        retained == selected[1].retained
    IN Retained /\ ~selected[1].raised /\ 0 < k /\ k <= Len(snapshots) =>
          /\ \E L \in SUBSET retained : Cardinality(L) = k /\ Latest(L)
          /\ Repo.retention = [NoRetention EXCEPT !.keep_last = k] =>
                Cardinality(retained) = k

C12_Witness ==
    /\ Retained
    /\ ~selected[1].raised
    /\ Repo.retention.keep_last = 1
    /\ Repo.retention.keep_weekly = 2
    /\ Len(snapshots) = MaxSnapshots
    /\ Cardinality(selected[1].retained) = 2
    /\ \E L \in SUBSET selected[1].retained : Cardinality(L) = 1 /\ Latest(L)

\* the calendar unit of a tier a date lies in, as a number that grows with
\* time: minutes, hours and days since the epoch of the model, weeks from
\* Monday to Monday, months and years of the calendar
BucketOf(tier, date) ==
    LET day == date \div DaySeconds
    IN CASE tier = "minutely" -> date \div 60
         [] tier = "hourly" -> date \div 3600
         [] tier = "daily" -> day
         [] tier = "weekly" -> (day + 6) \div 7
         [] tier = "monthly" -> 12 * YearOf(day) + MonthOf(day)
         [] tier = "yearly" -> YearOf(day)

\* the snapshots dated before `now`: the others are in no bucket
Past == {i \in 1..Len(snapshots) : snapshots[i].date < now}

\* the k most recent buckets of the tier that hold a snapshot
RecentBuckets(tier, k) ==
    LET buckets == {BucketOf(tier, snapshots[i].date) : i \in Past}
    IN {b \in buckets : Cardinality({c \in buckets : c > b}) < k}

\* sel holds, for each of the k most recent non-empty buckets of the tier,
\* one snapshot, a newest one of the bucket, and nothing else
IsTierSelection(sel, tier, k) ==
    /\ sel \subseteq Past
    /\ {BucketOf(tier, snapshots[i].date) : i \in sel} = RecentBuckets(tier, k)
    /\ \A i \in sel : \A j \in Past :
          BucketOf(tier, snapshots[j].date) = BucketOf(tier, snapshots[i].date) =>
             /\ snapshots[j].date <= snapshots[i].date
             /\ j \in sel => j = i

\* C13: for a tier with keep count k (every other count 0) the selection the
\* call returns is the newest snapshot of each of the k most recent non-empty
\* buckets of the tier, the buckets being the calendar units going back from
\* now, with weeks from Monday and December of the year before preceding
\* January; an empty bucket takes nothing from k.  One snapshot per day from
\* 2024-01-01 to 2024-01-07 seen at 2024-01-08T00:00: keep_daily = 3 selects
\* the snapshots of 01-05, 01-06, 01-07 and keep_weekly = 1 the one of 01-07
C13_Generational ==
    Retained /\ ~selected[1].raised =>
       /\ \A t \in 1..Len(Tiers) : \A k \in 1..(MaxSnapshots + 1) :
             Repo.retention = TierPolicy(0, Tiers[t], k) =>
                IsTierSelection(selected[1].retained, Tiers[t], k)
       /\ SnapshotDates = WeekDates /\ now = WeekNow =>
             /\ Repo.retention = TierPolicy(0, "daily", 3) =>
                   selected[1].retained = {5, 6, 7}
             /\ Repo.retention = TierPolicy(0, "weekly", 1) =>
                   selected[1].retained = {7}

\* two months are kept, January 2025 and November 2024, the empty December
\* between them being skipped; a snapshot that is not dated in the past is
\* in the list and not selected
C13_Witness ==
    /\ Retained
    /\ ~selected[1].raised
    /\ Repo.retention = TierPolicy(0, "monthly", 2)
    /\ {BucketOf("monthly", snapshots[i].date) : i \in selected[1].retained}
          = {12 * 2025 + 1, 12 * 2024 + 11}
    /\ Past # 1..Len(snapshots)

(***************************************************************************)
(* prune                                                                   *)
(***************************************************************************)
\* sources s and t have a repository at the same path
ShareRepository(s, t) ==
    \E i \in 1..Len(cfg[s].repos) : \E j \in 1..Len(cfg[t].repos) :
       cfg[s].repos[i].path = cfg[t].repos[j].path

\* prune has not yet been called for source t
NotYetPruned(t) == pc = "prune" /\ t >= si

\* C14: for two sources of distinct names that archive into one repository
\* (one name may be the beginning of the other), the glob prune uses for one
\* matches no archive name <name>-<number>-<date> of the other, and the
\* archives of a source are all there as long as only other sources were pruned
C14_PruneScoping ==
    \A s \in 1..Len(cfg) : \A t \in 1..Len(cfg) :
       s # t /\ cfg[s].name # cfg[t].name /\ ShareRepository(s, t) =>
          /\ \A a \in ArchivesOf(t) :
                ~GlobMatch(PruneGlob(cfg[s].name), ArchiveString(a))
          /\ NotYetPruned(t) => ArchivesOf(t) \subseteq arch[cfg[t].repos[1].path]

C14_Witness ==
    /\ pc = "prune" /\ si = 2
    /\ cfg[1].name = <<"h">>
    /\ cfg[2].name = <<"h", "-", "h">>
    /\ ShareRepository(1, 2)
    /\ \E i \in 1..Len(calls) :
          calls[i].op = "prune" /\ calls[i].si = 1 /\ calls[i].res = "ok"
    /\ ArchivesOf(2) \subseteq arch["p1"]

\* borg prune was called for repository r of source s
PruneCalled(s, r) ==
    \E i \in 1..Len(calls) :
       calls[i].op = "prune" /\ calls[i].si = s /\ calls[i].ri = r

\* C15: in a backup run prune is called only after the backups of all sources
\* have finished; when the root status is not ERR and pruning is not
\* suppressed it is called for every repository of every source, a failure of
\* one prune not preventing the prune of the remaining repositories; when the
\* root status is ERR or --no-prune was given it is called for no repository
C15_PruneTriggering ==
    /\ \A i \in 1..Len(calls) : \A j \in 1..Len(calls) :
          calls[i].op = "prune" /\ i < j => calls[j].op = "prune"
    /\ (pc = "exited" /\ ~Killed /\ results # <<>>) =>
          IF Status(results[1]) # "ERR" /\ flags.prune_old_backups
          THEN ~flags.dryrun =>
                  \A s \in 1..Len(cfg) : \A r \in 1..Len(cfg[s].repos) : PruneCalled(s, r)
          ELSE \A s \in 1..Len(cfg) : \A r \in 1..Len(cfg[s].repos) : ~PruneCalled(s, r)

(***************************************************************************)
(* Errors of the configuration and of the snapper version                  *)
(***************************************************************************)
\* the step in which create_from_config raises for a repository it cannot
\* build, and the one in which the version check of snapper raises
ConfigurationError == pc = "create_repo" /\ pc' = "exited" /\ raised' = "Exception"
VersionError == pc' = "exited" /\ raised' = "SnapperTooOldException"

\* C16: a run that aborts with a configuration error (of any repository of
\* any source) or with a snapper version error has attempted no archive
\* transfer before: no delete and no create call was made
C16_FailFast ==
    [][ConfigurationError \/ VersionError =>
          \A i \in 1..Len(calls) : calls[i].op \notin {"delete", "create"}]_vars

\* C17: a backup run that has started to process its sources has printed the
\* result tree when the process exits, whatever error occurred in the run, a
\* failure of snapper while the configuration of a source is read included
C17_ResultsPrinted ==
    (pc = "exited" /\ ~Killed /\ calls # <<>>) => results # <<>>

(***************************************************************************)
(* The calls to borg for a candidate                                       *)
(***************************************************************************)
\* borg delete is called for an archive the repository does not hold
DeleteOfMissingArchive ==
    /\ pc = "delete"
    /\ ~flags.dryrun
    /\ CandidateArchive \notin arch[Repo.path]
    /\ raised' # "killed"

\* C18: with recreate, when borg delete reports that the archive does not
\* exist, the candidate is not failed: the run goes on to clear the tag of
\* the repository, after which the create call is made
C18_RecreateMissingArchive ==
    [][DeleteOfMissingArchive =>
          /\ pc' = "untag"
          /\ ci' = ci
          /\ leaves' = leaves]_vars

\* the exit statuses with which borg reports warnings: 1, and 100 to 127
BorgWarningCodes == {1} \cup 100..127

\* C19: a borg command that exits with 0 succeeds; with 1 or a code of the
\* warning range of borg it succeeds with a warning and raises no error;
\* with the code for "archive already exists" it raises an error that
\* carries this code; with any other code it raises an error carrying the code
C19_ExitStatusClasses ==
    \A i \in 1..Len(calls) :
       LET returncode == calls[i].returncode
           outcome == calls[i].res
       IN calls[i].op \in {"delete", "create", "prune"} =>
             IF returncode = 0 THEN ~outcome.raised /\ ~outcome.warned
             ELSE IF returncode \in BorgWarningCodes THEN ~outcome.raised
             ELSE outcome.raised /\ outcome.returncode = returncode

(***************************************************************************)
(* The candidates of a repository                                          *)
(***************************************************************************)
\* the numbers of the snapshots of the list snaps that the retention policy
\* of the repository selects and that are not tagged for it, or that it
\* selects when the archives are recreated
ExpectedCandidates(snaps, repo_config, recreate, now_) ==
    LET ret == GetRetainedSnapshots([i \in 1..Len(snaps) |-> snaps[i].date],
                                    repo_config.retention, now_)
    IN {snaps[i].number :
           i \in {j \in ret.retained :
                     recreate \/ ~IsBackedUp(snaps[j], repo_config.name)}}

\* the candidates are chosen for a repository in this step
CandidatesChosen == Len(selected') = Len(selected) + 1

\* the calls for repository r of source s among `ops`
CallsFor(s, r, ops) ==
    {i \in 1..Len(calls) : calls[i].si = s /\ calls[i].ri = r /\ calls[i].op \in ops}

\* what a run writes through snapper and borg while it backs up to a repository
WriteOps ==
    {"protect", "restore", "delete", "create", "mount", "tag", "untag",
     "migrate_new", "migrate_legacy"}

\* the calls whose failure ends the loop over the candidates: the exception
\* is raised outside backup_snapshot or leaves it
LoopEndingOps == {"protect", "mount", "migrate_new", "migrate_legacy"}

\* transfer calls are made for candidates only, and for every candidate when
\* the repository was handled to the end and the loop over the candidates
\* was not ended by an exception
TransferredAreCandidates ==
    \A k \in 1..Len(selected) :
       LET s == selected[k].si
           r == selected[k].ri
           numbers == Range(selected[k].numbers)
           transferred == {calls[i].n : i \in CallsFor(s, r, {"delete", "create"})}
       IN /\ transferred \subseteq numbers
          /\ (/\ Len(RepoResultsOf(s)) >= r
              /\ ~flags.dryrun
              /\ ~CallFailed(s, r, LoopEndingOps))
             => transferred = numbers
          /\ (numbers = {} /\ Len(RepoResultsOf(s)) >= r) =>
                /\ Status(RepoResultsOf(s)[r]) = "OK"
                /\ CallsFor(s, r, WriteOps) = {}

\* C20: the snapshots for which backup_to_repo makes transfer calls to a
\* repository are the retention selection under the retention policy of the
\* repository without the snapshots tagged for it, or the whole retention
\* selection with recreate; no other snapshot is transferred; with no
\* candidate the result is OK and nothing is written through snapper or borg
C20_CandidateSelection ==
    [][/\ CandidatesChosen =>
             LET chosen == selected'[Len(selected')]
             IN /\ Range(chosen.numbers)
                      = ExpectedCandidates(snapshots', cfg[chosen.si].repos[chosen.ri],
                                           flags.recreate, now)
                /\ Cardinality(Range(chosen.numbers)) = Len(chosen.numbers)
       /\ TransferredAreCandidates']_vars

\* repository B keeps the last snapshot only: snapshot 2 was transferred to
\* it, snapshot 1, untagged and outside the selection, was not
C20_Witness ==
    /\ pc = "exited" /\ ~Killed
    /\ ~flags.recreate /\ ~flags.dryrun
    /\ cfg = TwoRepos(FailAfterFalse)
    /\ \E k \in 1..Len(selected) :
          /\ selected[k].si = 1 /\ selected[k].ri = 2
          /\ selected[k].numbers = <<2>>
    /\ \E i \in CallsFor(1, 2, {"create"}) : calls[i].n = 2 /\ calls[i].res = "ok"
    /\ RepoB \notin PersistedTags(1, 1)
    /\ \E k \in 1..Len(selected) :
          /\ selected[k].si = 1 /\ selected[k].ri = 1
          /\ selected[k].numbers = <<>>

(***************************************************************************)
(* The result of a repository                                              *)
(***************************************************************************)
\* the results backup_to_repo has returned, each with its source and the
\* position of its repository
ReturnedRepoResults ==
    UNION {{[si |-> s, ri |-> r, result |-> RepoResultsOf(s)[r]] :
               r \in 1..Len(RepoResultsOf(s))} : s \in 1..Len(cfg)}

\* C21: when backup_to_repo returns the results of its candidates, none of
\* them is ERR and no snapper call failed for the repository, the result of
\* the repository is OK, also when a candidate was resolved by the legacy
\* migration rule
C21_NoFailureIsOk ==
    \A x \in ReturnedRepoResults :
       (/\ x.result.children # <<>>
        /\ ~HasErrLeaf(x.result)
        /\ ~CallFailed(x.si, x.ri, ProviderOps)) => Status(x.result) = "OK"

(***************************************************************************)
(* The retention selection: equal dates, dates not in the past             *)
(***************************************************************************)
\* C22: when several snapshots of a bucket share the greatest date of the
\* bucket, the one selected for the bucket is the last of them in the list
\* sorted by date, which is the last of them in the input (the sort is stable)
C22_TieBreakLast ==
    Retained /\ ~selected[1].raised =>
       \A t \in 1..Len(Tiers) : \A k \in 1..(MaxSnapshots + 1) :
          Repo.retention = TierPolicy(0, Tiers[t], k) =>
             \A i \in selected[1].retained : \A j \in 1..Len(snapshots) :
                snapshots[j].date = snapshots[i].date => j <= i

\* C27: get_retained_snapshots returns for every list of snapshots and every
\* policy: the loop of each tier ends after finitely many intervals without
\* an exception, also when the keep count of the tier is greater than the
\* number of its non-empty buckets and a snapshot is dated at or after now
C27_SelectionReturns ==
    Retained => ~selected[1].raised

TransferSteps ==
    {"delete", "untag", "create", "tag", "migrate_new", "migrate_legacy"}

\* the cleanup algorithm the provider state p holds for a snapshot
CleanupIn(p, s, number) ==
    LET i == CHOOSE j \in 1..Len(p[s]) : p[s][j].number = number
    IN p[s][i].cleanup

\* the cleanup algorithm snapper holds for the c-th candidate
CleanupHeld(c) == CleanupIn(prov, si, snapshots[candidates[c]].number)

\* C23: for each repository no delete or create call for a candidate is made
\* before snapper holds the empty cleanup algorithm for every candidate of
\* the repository, and the cleanup algorithms are restored only when the
\* transfer of the last candidate has ended or an exception has ended the
\* loop over the candidates; no transfer follows a restore
C23_ProtectionScope ==
    [][/\ (pc' \in TransferSteps /\ ~flags'.dryrun) =>
             \A c \in 1..Len(candidates') :
                CleanupIn(prov', si', snapshots'[candidates'[c]].number) = NoCleanup
       /\ (pc' = "restore" /\ pc # "restore") =>
             \/ raising' # NoException
             \/ Len(snapshot_results') = Len(candidates')
       /\ pc = "restore" => pc' \notin TransferSteps \cup {"protect"} \/ si' # si \/ ri' # ri]_vars

\* two candidates with a cleanup algorithm were protected, the second one is
\* being transferred and none is restored yet
C23_Witness ==
    /\ pc = "create" /\ ~flags.dryrun
    /\ Len(candidates) = 2 /\ ci = 2
    /\ \A c \in 1..2 : /\ snapshots[candidates[c]].cleanup # NoCleanup
                       /\ CleanupHeld(c) = NoCleanup

(***************************************************************************)
(* The scope of the bind mount                                             *)
(***************************************************************************)
\* the positions in the log of the calls of the kinds `ops`
MountCalls(ops) == {i \in 1..Len(calls) : calls[i].op \in ops}

\* C24: BorgRepo.backup with a mount path: the bind mount is made only when
\* no mount is left at the mount point, borg runs only on top of the bind
\* mount, and whenever the bind mount was made the function ends with an
\* umount of the mount point issued after borg has ended, also when borg
\* failed; when that umount succeeds nothing is mounted at the mount point
C24_BindMountScope ==
    /\ \A i \in MountCalls({"mount"}) : calls[i].found = <<>>
    /\ \A i \in MountCalls({"create"}) : calls[i].found = <<"bind">>
    /\ (pc = "returned" /\ \E i \in MountCalls({"mount"}) : calls[i].res = "ok") =>
          /\ calls[Len(calls)].op = "umount"
          /\ calls[Len(calls)].found = <<"bind">>
          /\ calls[Len(calls)].res = "ok" => mounts = <<>>

\* stale mounts were found and unmounted, borg failed on top of the bind
\* mount, and the mount point was unmounted afterwards
C24_Witness ==
    /\ pc = "returned" /\ raised = "CalledProcessError"
    /\ mounts = <<>>
    /\ Len(calls) = 5
    /\ calls[1].op = "umount" /\ calls[1].found = <<"other", "stale">>
    /\ calls[3].op = "mount" /\ calls[3].res = "ok"
    /\ calls[4].op = "create" /\ calls[4].res = "error"
    /\ calls[5].op = "umount" /\ calls[5].res = "ok"

(***************************************************************************)
(* Optional repositories                                                   *)
(***************************************************************************)
\* C25: for a repository with fail_after = false backup_to_repo never
\* returns a result of status ERR, whatever fails while backing up to it: a
\* transfer of a candidate, listing the snapshots, or setting or restoring
\* the cleanup protection
C25_OptionalNeverErr ==
    \A x \in ReturnedRepoResults :
       cfg[x.si].repos[x.ri].fail_after = FailAfterFalse
          => Status(x.result) # "ERR"

(***************************************************************************)
(* set_backup_status: the tags in memory and the tags written               *)
(***************************************************************************)
\* C28: when the write of the tag fails inside set_backup_status, the tags
\* the snapshot object holds are the ones it held before the call, so that
\* is_backed_up reports no repository whose tag was not written
C28_FailedWriteKeepsMemory ==
    (JustSet /\ LastSet.res = "error") =>
       snapshots[LastSet.n].is_backed_up = LastSet.before

\* C29: for every set of repository names a snapshot object holds, the empty
\* set included, a snapshot loaded from the userdata set_backup_status wrote
\* holds exactly that set
C29_PersistedRoundTrip ==
    (JustSet /\ LastSet.res = "ok") =>
       PersistedTags(1, snapshots[LastSet.n].number)
          = snapshots[LastSet.n].is_backed_up

(***************************************************************************)
(* Recovery after a run that was killed between create and tag             *)
(***************************************************************************)
\* runs one after the other without end: every call returns in the end, and
\* the backup is started again and again (a timer starts it)
RecoveryScenarios ==
    {[cfg |-> TwoReposLast, kinds |-> <<k>>] :
        k \in {<<"none", "none">>, <<"legacy", "legacy">>}}

InitRecovery ==
    /\ \E scenario \in RecoveryScenarios :
          /\ cfg = scenario.cfg
          /\ prov = InitProv(scenario)
          /\ arch = InitArch(scenario)
    /\ config_results = <<>>
    /\ NotStarted

\* the runs after the ones that are counted: the next backup run starts
RunAgain ==
    /\ pc = "exited"
    /\ runs = MaxRuns
    /\ StartRunAs(RerunFlags, runs)

NextRecovery ==
    \/ NextRuns
    \/ RunAgain

SpecRecovery == InitRecovery /\ [][NextRecovery]_vars /\ WF_vars(NextRecovery)

\* the number of the newest snapshot of the first source, the one a
\* repository that keeps the last snapshot selects
Newest == Len(SnapshotNumbers(SourceHome)) - 1

\* the run was killed right after borg had created the archive of snapshot
\* n in repository r of the first source, before the tag was written; no
\* call fails from here on
Interrupted(r, n) ==
    /\ pc = "exited" /\ Killed /\ ~CanFail
    /\ r <= Len(cfg[1].repos)
    /\ calls # <<>>
    /\ calls[Len(calls)] = [op |-> "create", si |-> 1, ri |-> r, n |-> n, res |-> "ok"]
    /\ cfg[1].repos[r].name \notin PersistedTags(1, n)

\* the result a finished run reports for snapshot n as a candidate of
\* repository r is not ERR
ReportedNotErr(r, n) ==
    \E k \in 1..Len(selected) :
       /\ selected[k].si = 1 /\ selected[k].ri = r
       /\ r <= Len(RepoResultsOf(1))
       /\ \E c \in 1..Len(selected[k].numbers) :
             /\ selected[k].numbers[c] = n
             /\ c <= Len(RepoResultsOf(1)[r].children)
             /\ Status(RepoResultsOf(1)[r].children[c]) # "ERR"

\* a run has ended that leaves snapshot n tagged for repository r in snapper
\* and reports a result other than ERR for it
Recovered(r, n) ==
    /\ pc = "exited" /\ ~Killed
    /\ r <= Len(cfg[1].repos)
    /\ \E j \in 1..Len(prov[1]) : prov[1][j].number = n
    /\ cfg[1].repos[r].name \in PersistedTags(1, n)
    /\ ReportedNotErr(r, n)

\* C30: when a run was killed after the archive of a snapshot was created in
\* a repository and before its tag was written, the runs after it, in which
\* no call fails, in the end leave the snapshot tagged for the repository
\* and report a result other than ERR for it, unless one of them is a run
\* with recreate
C30_RecoveryAfterInterruption ==
    \A r \in 1..2 :
       Interrupted(r, Newest) ~> (Recovered(r, Newest) \/ (Running /\ flags.recreate))


====
